---- MODULE Spec2Model ----
(***************************************************************************)
(* State-machine model of the MCP tool-server gateway: the child-process   *)
(* supervisor (McpServerLifecycleService), tool routing                    *)
(* (McpServerToolsService.invoke_tool), the private-instance manager       *)
(* (McpServerPrivateService), the SSE session transport (SseTransport and  *)
(* the /mcp/message handlers) and the shutdown sequence.                   *)
(*                                                                         *)
(* Every coroutine is cut at its real suspension points (subprocess spawn, *)
(* discovery, readline on a child's stdout, process.wait, asyncio.sleep);  *)
(* the code between two suspension points is one atomic step.              *)
(***************************************************************************)
EXTENDS Integers, Sequences, FiniteSets, TLC

(***************************************************************************)
(* Bounds of the model.                                                    *)
(***************************************************************************)
NTasks == 2
MaxOps == 3
MaxProcs == 3
MaxConns == 2

Tasks == 1..NTasks
Pids == 1..MaxProcs
NoProc == 0
NoTask == 0

BaseServers == {"time", "calc"}
Users == {"donald"}
Anonymous == ""
Sids == {"s1"}
Conns == 1..MaxConns

\* The session ids a client puts into client_id and session_id: a UUID as
\* the server prints it, the same UUID in upper case, and a string that is
\* no UUID.
ClientIds == {"s1", "S1", "zz"}

\* str(uuid.UUID(x)); "invalid" stands for the ValueError
uuid_str(x) == IF x \in {"s1", "S1"} THEN "s1" ELSE "invalid"

\* validate_session_id, lines 47-58: only the format is looked at
validate_session_id(x) == uuid_str(x) # "invalid"

\* The configuration of the servers at startup, in config.json order.
ConfigOrder == <<"time", "calc">>

\* f"{server_name}-{username}"
get_private_server_name(username, server_name) == server_name \o "-" \o username

PrivateNames == {get_private_server_name(u, b) : u \in Users, b \in BaseServers}
Names == BaseServers \cup PrivateNames

\* The command/args/env a child is launched from, named by the base server
\* whose command it is and the user whose environment is merged into it.
ServerSpec(b, u) == [base |-> b, owner |-> u]
Specs == {ServerSpec(b, u) : b \in BaseServers, u \in Users \cup {Anonymous}}

\* What a child launched from a spec answers to tools/list.
ChildTools(spec) == IF spec.base = "time" THEN {"get_current_time"} ELSE {"calculate"}
ToolNames == UNION {ChildTools(s) : s \in Specs}

VARIABLES
    mcpservers,              \* McpServerService.mcpservers, in dict insertion order
    procs,                   \* the OS processes ever spawned
    config,                  \* config.json / memory.mcpServers: name -> spec
    cache,                   \* the cache/<name>.json files: name -> tools stored
    routes,                  \* the dynamic /tool/<server>/<tool> endpoints
    private_server_mapping,  \* {<<user, base, private name>>}
    server_start_times,      \* names with a recorded start time
    users,                   \* user records: global env, per-server blocks
    tasks,                   \* the request handlers in progress
    nops,                    \* operations started so far
    client_info,             \* SseTransport.client_info
    message_queues,          \* SseTransport.message_queues
    active_connections,      \* SseTransport.active_connections
    connection_tasks,        \* SseTransport.connection_tasks: the open streams
    shutting_down,           \* SseTransport.shutting_down
    sd,                      \* the shutdown_event coroutine
    streams,                 \* per stream: its session and the events it has yielded
    last_response,           \* the latest reply returned by POST /mcp/message
    rpc                      \* a line read from a child and the tools/call reply made of it

supVars == <<mcpservers, procs, config, cache, routes, private_server_mapping,
             server_start_times, users, rpc, tasks, nops>>
sseVars == <<client_info, active_connections, connection_tasks, shutting_down,
             streams>>
vars == <<mcpservers, procs, config, cache, routes, private_server_mapping,
          server_start_times, users, rpc, tasks, nops, client_info, message_queues,
          active_connections, connection_tasks, shutting_down, sd, streams,
          last_response>>

(***************************************************************************)
(* The registry: a Python dict, kept as the sequence of its entries in     *)
(* insertion order.  An entry without a "process" key has proc = NoProc.   *)
(***************************************************************************)
IndexOf(name) == CHOOSE i \in DOMAIN mcpservers : mcpservers[i].name = name

Entry(name) == mcpservers[IndexOf(name)]

\* self.mcpservers[name] = entry : an existing key keeps its place.
RegPut(reg, e) ==
    IF \E i \in DOMAIN reg : reg[i].name = e.name
    THEN [i \in DOMAIN reg |-> IF reg[i].name = e.name THEN e ELSE reg[i]]
    ELSE Append(reg, e)

\* del self.mcpservers[name]
RegDel(reg, name) == SelectSeq(reg, LAMBDA e : e.name # name)

\* self.mcpservers[name][field] = value, for a present name
RegSetTools(reg, name, tl) ==
    [i \in DOMAIN reg |-> IF reg[i].name = name THEN [reg[i] EXCEPT !.tools = tl] ELSE reg[i]]

RegSetStatus(reg, name, st) ==
    [i \in DOMAIN reg |-> IF reg[i].name = name THEN [reg[i] EXCEPT !.status = st] ELSE reg[i]]

NewEntry(name, tl, pid, st, spec) ==
    [name |-> name, tools |-> tl, proc |-> pid, status |-> st, spec |-> spec]

\* process.returncode is None, in a process table P
AliveIn(P, pid) == pid # NoProc /\ P[pid].state = "running"

Alive(pid) == AliveIn(procs, pid)

NoProcess == [state |-> "unborn", name |-> "", spec |-> ServerSpec("time", Anonymous),
              inflight |-> {}, stdout |-> <<>>, waiter |-> NoTask]

\* the pid the next create_subprocess_exec returns
FreshPid(P) == CHOOSE p \in Pids : P[p].state = "unborn" /\ \A q \in Pids : q < p => P[q].state # "unborn"

CanSpawn(P) == \E p \in Pids : P[p].state = "unborn"

InReg(reg, name) == \E i \in DOMAIN reg : reg[i].name = name

RegEntry(reg, name) == reg[CHOOSE i \in DOMAIN reg : reg[i].name = name]

\* MetadataService.list_tools: <<server, tool>> for every entry whose process
\* has not exited (an entry without a process contributes its cached tools).
ListTools(reg, P) ==
    UNION {{<<reg[i].name, tl>> : tl \in reg[i].tools} :
            i \in {j \in DOMAIN reg : reg[j].proc = NoProc \/ AliveIn(P, reg[j].proc)}}

\* list_servers, lines 229-235: the status reported for an entry is the
\* stored one, or stopped once its process has exited.
ReportedStatus(e, P) ==
    IF e.proc # NoProc /\ ~AliveIn(P, e.proc) THEN "stopped" ELSE e.status

IdleTask == [pc |-> "idle", op |-> "", inv |-> 0, tool |-> "", user |-> Anonymous,
             via |-> "", sid |-> "", name |-> "", spec |-> ServerSpec("time", Anonymous),
             cont |-> "", proc |-> NoProc, res |-> "", disp |-> NoProc, got |-> 0,
             spawned |-> NoProc, old |-> NoProc, lazy |-> FALSE,
             found |-> "", target |-> "", gate |-> "", streaming |-> FALSE,
             todo |-> <<>>, before |-> 0, tool_count |-> 0, stop_result |-> ""]

(***************************************************************************)
(* The values an operation works on between two suspension points: the     *)
(* registry, the process table, config.json, the cache directory, the      *)
(* routes, the start times and the private mapping.  Store is their value  *)
(* now; Commit writes them back.                                           *)
(***************************************************************************)
Store == [reg |-> mcpservers, procs |-> procs, cfg |-> config, cache |-> cache,
          routes |-> routes, sst |-> server_start_times,
          psm |-> private_server_mapping, mq |-> message_queues,
          resp |-> last_response]

Commit(S) ==
    /\ mcpservers' = S.reg
    /\ procs' = S.procs
    /\ config' = S.cfg
    /\ cache' = S.cache
    /\ routes' = S.routes
    /\ server_start_times' = S.sst
    /\ private_server_mapping' = S.psm
    /\ message_queues' = S.mq
    /\ last_response' = S.resp

\* The handler returns res.
Ret(rec, res) == [rec EXCEPT !.pc = "done", !.res = res]

\* The JSON-RPC error code of a reply to POST /mcp/message (0: a result):
\* message_endpoint lines 115-130, handle_tools_call lines 37-52, 82-92 and
\* 128-144.
RpcCode(res) ==
    CASE res = "ok" -> 0
      [] res = "not_initialized" -> -32002
      [] res = "invalid_request" -> -32600
      [] res = "invalid_session" -> -32602
      [] OTHER -> -32603

\* the session has a stream that has not been closed
HasStream(sid) == \E c \in connection_tasks : streams[c].sid = sid

\* A reply of POST /mcp/message to request inv; posted_open: the session had
\* an open stream when the request came in, open: it has one now.
Response(inv, sid, method, code, posted_open) ==
    [inv |-> inv, sid |-> sid, method |-> method, code |-> code,
     posted_open |-> posted_open, open |-> HasStream(sid)]

NoResponse == [inv |-> 0, sid |-> "", method |-> "", code |-> 0,
               posted_open |-> FALSE, open |-> FALSE]

\* SseTransport.send_message, lines 140-157: the message is queued when the
\* session has a queue and an active connection, and dropped otherwise.
send_message(S, sid, msg) ==
    IF S.mq[sid].open /\ active_connections[sid] = "active"
    THEN [S EXCEPT !.mq[sid].msgs = Append(@, msg)]
    ELSE S

\* The handler returns r; with sse it has sent r through send_sse_response
\* before (utils.py lines 61-80).
Reply(S, r, sse) ==
    IF sse
    THEN send_message([S EXCEPT !.resp = r], r.sid,
                      [inv |-> r.inv, code |-> r.code, method |-> r.method])
    ELSE [S EXCEPT !.resp = r]

\* The step ends with the task in state rec.  A tools/call handler that
\* returns has first sent its response through the session's stream
\* (handle_tools_call lines 44-52, 86-92, 107-126 and, for an exception of
\* invoke_tool, 128-144); the answers of message_endpoint itself to a bad
\* session id or envelope are only returned.
Done(t, rec, S) ==
    /\ tasks' = [tasks EXCEPT ![t] = rec]
    /\ IF rec.pc = "done" /\ rec.via = "sse"
       THEN Commit(Reply(S, Response(rec.inv, rec.sid, "tools/call", RpcCode(rec.res),
                                     rec.streaming),
                         rec.res \notin {"invalid_request", "invalid_session"}))
       ELSE Commit(S)

\* "id": 1 in every tools/call and tools/list request
RequestId(inv) == 1

\* StreamReader.readline at the moment it is called: a buffered line is
\* returned at once, end of file gives b"", a second waiter on the stream
\* raises RuntimeError, and otherwise the caller suspends.
ReadOutcome(P, p) ==
    IF P[p].stdout # <<>> THEN "line"
    ELSE IF P[p].state = "exited" THEN "eof"
    ELSE IF P[p].waiter # NoTask THEN "busy"
    ELSE "wait"

\* process.stdin.write(request) and drain() on a running child.  On a child
\* that has exited drain() raises ConnectionResetError, which the callers
\* catch (invoke_tool line 206, fetch_server_metadata line 489).
StdinWrite(P, p, req) == [P EXCEPT ![p].inflight = @ \cup {req}]

\* invoke_tool, lines 178-204, on the line it has read: a reply to a request
\* (of whatever call) has a result and is returned; a notification has
\* neither error nor result ("Missing 'result' in response"), a line that
\* is not JSON raises JSONDecodeError: both return status error.
LineResult(line) == IF line.kind \in {"call", "list"} THEN "ok" ELSE "error"

(***************************************************************************)
(* invoke_tool, lines 151-208: write the request to the child's stdin and  *)
(* read one line from its stdout.                                          *)
(***************************************************************************)
WriteAndRead(t, rec, S, p) ==
    LET req == [id |-> RequestId(rec.inv), inv |-> rec.inv, kind |-> "call"]
        P1 == StdinWrite(S.procs, p, req)
        r1 == [rec EXCEPT !.disp = p, !.proc = p]
        out == ReadOutcome(S.procs, p)
    IN IF ~AliveIn(S.procs, p)
       THEN Done(t, Ret([rec EXCEPT !.proc = p], "error"), S)
       ELSE IF out = "line"
       THEN Done(t, Ret([r1 EXCEPT !.got = Head(S.procs[p].stdout).inv],
                        LineResult(Head(S.procs[p].stdout))),
                 [S EXCEPT !.procs = [P1 EXCEPT ![p].stdout = Tail(@)]])
       ELSE IF out = "wait"
       THEN Done(t, [r1 EXCEPT !.pc = "reading"],
                 [S EXCEPT !.procs = [P1 EXCEPT ![p].waiter = t]])
       ELSE Done(t, Ret(r1, "error"), [S EXCEPT !.procs = P1])

\* A delete that leaves the cache file in place.
DeleteSyncKeepingCache(S, name) ==
    [S EXCEPT !.reg = RegDel(S.reg, name),
              !.sst = S.sst \ {name},
              !.psm = {m \in S.psm : m[3] # name},
              !.cfg = [n \in DOMAIN S.cfg \ {name} |-> S.cfg[n]]]

\* delete_mcpserver, lines 585-609: what follows the stop.
DeleteSync(S, name) ==
    [S EXCEPT !.reg = RegDel(S.reg, name),
              !.sst = S.sst \ {name},
              !.psm = {m \in S.psm : m[3] # name},
              !.cfg = [n \in DOMAIN S.cfg \ {name} |-> S.cfg[n]],
              !.cache = [n \in DOMAIN S.cache \ {name} |-> S.cache[n]]]

\* _reload_tools_router: the endpoints are rebuilt from list_tools.
ReloadRoutes(S) == [S EXCEPT !.routes = ListTools(S.reg, S.procs)]

\* start_mcpserver, lines 219-228: the early return for a running server.
AlreadyRunning(S, name) ==
    InReg(S.reg, name) /\ AliveIn(S.procs, RegEntry(S.reg, name).proc)

\* add_mcpserver, lines 184-201, then add_new_mcpserver_config's return and
\* the admin route's _reload_tools_router.
AddReturn(t, rec, S, ok) ==
    IF ok /\ InReg(S.reg, rec.name)
    THEN Done(t, Ret(rec, "success"),
              ReloadRoutes([S EXCEPT !.cfg = [n \in DOMAIN S.cfg \cup {rec.name} |->
                                        IF n = rec.name THEN rec.spec ELSE S.cfg[n]]]))
    ELSE Done(t, Ret(rec, "failed"), ReloadRoutes(S))

\* start_private_server, lines 147-155, after add_mcpserver's lines 184-197.
PrivateReturn(t, rec, S, ok) ==
    IF ok /\ InReg(S.reg, rec.name)
    THEN Done(t, Ret(rec, "success"),
              [S EXCEPT !.cfg = [n \in DOMAIN S.cfg \cup {rec.name} |->
                                    IF n = rec.name THEN rec.spec ELSE S.cfg[n]],
                        !.sst = S.sst \cup {rec.name},
                        !.psm = S.psm \cup {<<rec.user, rec.spec.base, rec.name>>}])
    ELSE Done(t, Ret(rec, "failed"), S)

\* restart_mcpserver, lines 660-674, after start_mcpserver has returned, and
\* the admin route's _reload_tools_router when the status is success.
RestartReturn(t, rec, S, ok) ==
    IF ok
    THEN Done(t, Ret([rec EXCEPT !.tool_count =
                          IF InReg(S.reg, rec.name)
                          THEN Cardinality(RegEntry(S.reg, rec.name).tools) ELSE 0],
                     "success"),
              ReloadRoutes(S))
    ELSE Done(t, Ret(rec, "failed"), S)

\* start_all_mcpservers, lines 694-707: the configured names from todo on
\* that add_mcpserver does not refuse as already registered (lines 171-172).
RECURSIVE SkipRegistered(_, _)
SkipRegistered(todo, reg) ==
    IF todo = <<>> THEN <<>>
    ELSE IF InReg(reg, Head(todo)) THEN SkipRegistered(Tail(todo), reg)
    ELSE todo

\* start_all_mcpservers from the names in todo on, then restart_all_mcpservers
\* lines 773-783: the first name that is not registered is started, and
\* when none is left the result is returned with status success.
StartAllFrom(t, rec, S, todo) ==
    LET rest == SkipRegistered(todo, S.reg) IN
    IF rest = <<>>
    THEN Done(t, Ret([rec EXCEPT !.todo = <<>>], "success"), S)
    ELSE Done(t, [rec EXCEPT !.pc = "spawning", !.cont = "start_all",
                             !.name = Head(rest), !.spec = S.cfg[Head(rest)],
                             !.todo = Tail(rest)], S)

\* add_mcpserver, lines 184-201, under start_all_mcpservers, which ignores
\* the result and goes on with the next name.
StartAllReturn(t, rec, S, ok) ==
    IF ok /\ InReg(S.reg, rec.name)
    THEN StartAllFrom(t, rec,
             [S EXCEPT !.cfg = [n \in DOMAIN S.cfg \cup {rec.name} |->
                                   IF n = rec.name THEN rec.spec ELSE S.cfg[n]]],
             rec.todo)
    ELSE StartAllFrom(t, rec, S, rec.todo)

(***************************************************************************)
(* start_mcpserver(rec.name, rec.spec), lines 219-268: return at once for  *)
(* a running server, else suspend in create_subprocess_exec.  cont says    *)
(* which caller resumes when it returns.                                   *)
(***************************************************************************)
StartMcp(t, rec, S, cont) ==
    IF AlreadyRunning(S, rec.name)
    THEN CASE cont = "add" -> AddReturn(t, rec, S, TRUE)
           [] cont = "private" -> PrivateReturn(t, rec, S, TRUE)
           [] cont = "admin_restart" -> RestartReturn(t, rec, S, TRUE)
           [] OTHER -> WriteAndRead(t, rec, S, RegEntry(S.reg, rec.name).proc)
    ELSE Done(t, [rec EXCEPT !.pc = "spawning", !.cont = cont], S)

\* A dispatch that writes to the registered process whatever its state.
DispatchWithoutRestart(t, rec, S) ==
    LET e == RegEntry(S.reg, rec.name) IN
    WriteAndRead(t, [rec EXCEPT !.old = IF AliveIn(S.procs, e.proc) THEN NoProc ELSE e.proc],
                 S, e.proc)

\* invoke_tool, lines 137-151: a child that has exited is deleted and
\* started again from the entry's command, args and env.
Dispatch(t, rec, S) ==
    LET e == RegEntry(S.reg, rec.name) IN
    IF ~AliveIn(S.procs, e.proc)
    THEN StartMcp(t, [rec EXCEPT !.old = e.proc, !.spec = e.spec],
                  DeleteSync(S, rec.name), "restart")
    ELSE WriteAndRead(t, rec, S, e.proc)

\* invoke_tool, lines 115-137: an entry without a process is lazy-started.
Resolve(t, rec, S) ==
    LET e == RegEntry(S.reg, rec.name)
        r1 == [rec EXCEPT !.target = rec.name]
    IN IF e.proc = NoProc
       THEN StartMcp(t, [r1 EXCEPT !.lazy = TRUE, !.spec = e.spec], S, "lazy")
       ELSE Dispatch(t, r1, S)

\* What the caller of start_mcpserver does with its result (ok: status
\* "success"): invoke_tool lines 125-137 and 149-151, add_mcpserver,
\* restart_mcpserver, start_all_mcpservers and start_private_server.
AfterStart(t, rec, S, ok) ==
    CASE rec.cont = "lazy" ->
            IF ~ok THEN Done(t, Ret(rec, "error"), S)
            ELSE IF ~InReg(S.reg, rec.name) THEN Done(t, Ret(rec, "raised"), S)
            ELSE Dispatch(t, rec, S)
      [] rec.cont = "restart" ->
            IF ~InReg(S.reg, rec.name) THEN Done(t, Ret(rec, "error"), S)
            ELSE WriteAndRead(t, rec, S, RegEntry(S.reg, rec.name).proc)
      [] rec.cont = "add" -> AddReturn(t, rec, S, ok)
      [] rec.cont = "admin_restart" -> RestartReturn(t, rec, S, ok)
      [] rec.cont = "start_all" -> StartAllReturn(t, rec, S, ok)
      [] OTHER -> PrivateReturn(t, rec, S, ok)

\* save_mcpserver_toolcache, lines 207-222: the file is written only when
\* there is none for the server.
save_mcpserver_toolcache(files, server_name, data) ==
    IF server_name \in DOMAIN files THEN files
    ELSE [n \in DOMAIN files \cup {server_name} |->
             IF n = server_name THEN data ELSE files[n]]

(***************************************************************************)
(* fetch_server_metadata from the response line on (lines 387-491) and     *)
(* start_mcpserver lines 309-326.  line is the reply read, or a record     *)
(* with kind "none" when the read failed.  A reply that is not a tool list *)
(* still has a result, and yields no tools.                                *)
(***************************************************************************)
DiscoveryFinish(t, rec, S, line) ==
    LET present == InReg(S.reg, rec.name)
        tl == IF line.kind = "list" THEN ChildTools(S.procs[rec.proc].spec) ELSE {}
        fetched == line.kind \in {"list", "call"} /\ present
    IN IF fetched
       THEN AfterStart(t, rec,
                [S EXCEPT !.reg = RegSetStatus(RegSetTools(S.reg, rec.name, tl),
                                               rec.name, "running"),
                          !.cache = save_mcpserver_toolcache(S.cache, rec.name, tl)], TRUE)
       ELSE IF present
       THEN AfterStart(t, rec,
                [S EXCEPT !.reg = RegSetStatus(S.reg, rec.name, "error")], TRUE)
       ELSE AfterStart(t, rec, S, FALSE)

NoLine == [id |-> 0, inv |-> 0, kind |-> "none"]

\* invoke_tool, lines 79-88: the first entry, in registry order, that lists
\* the tool; "" when there is none.
FindServer(reg, tool_name) ==
    IF \E i \in DOMAIN reg : tool_name \in reg[i].tools
    THEN reg[CHOOSE i \in DOMAIN reg :
                /\ tool_name \in reg[i].tools
                /\ \A j \in DOMAIN reg : tool_name \in reg[j].tools => i <= j].name
    ELSE ""

\* get_user_env_for_server as invoke_tool reaches it at line 93:
\* McpServerService forwards no such method of the private service, and the
\* method itself calls the users service's coroutine get_user without await;
\* the lookup raises AttributeError for every user and server.
get_user_env_for_server(username, server_name) == "raise"

\* A start_private_server whose try block reaches add_mcpserver.
start_private_try_reaches_add(username, server_name) == "add_server"

\* start_private_server, lines 123-138: get_user_env_for_server raises and
\* self.parent.add_server is not an attribute of the service; either is
\* caught at line 157 and the call returns status error.
start_private_try(username, server_name) == "error"

(***************************************************************************)
(* invoke_tool(rec.tool, arguments, rec.user), lines 65-115.               *)
(***************************************************************************)
InvokeTool(t, rec, S) ==
    LET server_name == FindServer(S.reg, rec.tool)
        r1 == [rec EXCEPT !.found = server_name, !.name = server_name]
    IN IF server_name = ""
       THEN Done(t, Ret(rec, "not_found"), S)
       ELSE IF rec.user # Anonymous
       THEN IF get_user_env_for_server(rec.user, server_name) = "raise"
            THEN Done(t, Ret(r1, "raised"), S)
            ELSE IF get_user_env_for_server(rec.user, server_name) = "none"
            THEN Resolve(t, r1, S)
            ELSE LET private_server_name == get_private_server_name(rec.user, server_name)
                     r2 == [r1 EXCEPT !.name = private_server_name]
                     S2 == [S EXCEPT !.sst = S.sst \cup {private_server_name}]
                 IN IF <<rec.user, server_name, private_server_name>> \notin S.psm
                       /\ start_private_try(rec.user, server_name) = "error"
                    THEN Done(t, Ret(r2, "error"), S)
                    ELSE IF ~InReg(S.reg, private_server_name)
                    THEN Done(t, Ret(r2, "raised"), S2)
                    ELSE Resolve(t, r2, S2)
       ELSE Resolve(t, r1, S)

(***************************************************************************)
(* The requests.  A request is taken by an idle handler slot and counted.  *)
(***************************************************************************)
Begin(t) == tasks[t].pc = "idle" /\ nops < MaxOps /\ sd.pc = "run"

\* The gateway process has not left through os._exit.
Up == sd.pc # "exited"

NewTask(op, via, user) ==
    [IdleTask EXCEPT !.op = op, !.via = via, !.user = user, !.inv = nops + 1]

\* POST /tool/<server>/<tool>, ToolsRouter.tool_endpoint: the endpoint exists
\* when the route was built; it passes only the tool name on.
RestInvoke(t, server, tool, user) ==
    /\ Begin(t)
    /\ nops' = nops + 1
    /\ LET rec == [NewTask("invoke", "rest", user) EXCEPT !.tool = tool, !.name = server]
       IN IF <<server, tool>> \notin routes
          THEN Done(t, Ret(rec, "no_route"), Store)
          ELSE InvokeTool(t, rec, Store)
    /\ UNCHANGED <<users, rpc, sseVars, sd>>

\* An add_mcpserver that never finds the name registered.
never_exists(reg, name) == FALSE

\* add_mcpserver, lines 171-172: `if name in self.mcpservers`
already_exists(reg, name) == InReg(reg, name)

\* POST /admin/mcpserver: add_new_mcpserver_config, add_mcpserver lines
\* 170-183, then the route reload.
AdminAdd(t, name) ==
    /\ Begin(t)
    /\ nops' = nops + 1
    /\ LET rec == [NewTask("add", "admin", Anonymous) EXCEPT
                      !.name = name, !.spec = ServerSpec(name, Anonymous)]
       IN IF already_exists(mcpservers, name)
          THEN Done(t, Ret(rec, "failed"), ReloadRoutes(Store))
          ELSE StartMcp(t, rec, Store, "add")
    /\ UNCHANGED <<users, rpc, sseVars, sd>>

\* DELETE /admin/mcpserver/<name>: delete_mcpserver lines 565-583; a running
\* process is sent SIGTERM and awaited (stop_mcpserver lines 510-534).
AdminDelete(t, name) ==
    /\ Begin(t)
    /\ nops' = nops + 1
    /\ LET rec == [NewTask("delete", "admin", Anonymous) EXCEPT !.name = name]
       IN IF ~InReg(mcpservers, name)
          THEN Done(t, Ret(rec, "failed"), Store)
          ELSE IF Alive(Entry(name).proc)
          THEN Done(t, [rec EXCEPT !.pc = "stopping", !.proc = Entry(name).proc], Store)
          ELSE Done(t, Ret(rec, "success"), ReloadRoutes(DeleteSync(Store, name)))
    /\ UNCHANGED <<users, rpc, sseVars, sd>>

\* A process ends: its pipes reach end of file and a reader is woken.
Exited(P, p) ==
    [P EXCEPT ![p].state = "exited", ![p].inflight = {}, ![p].waiter = NoTask]

\* stop_all_mcpservers goes through its snapshot of the names; a name that
\* is gone, has no process or whose process has exited returns without
\* suspending.  What is left starts with the first name to wait for.
RECURSIVE SkipStopped(_, _, _)
SkipStopped(todo, reg, P) ==
    IF todo = <<>> THEN <<>>
    ELSE IF InReg(reg, Head(todo)) /\ AliveIn(P, RegEntry(reg, Head(todo)).proc)
    THEN todo
    ELSE SkipStopped(Tail(todo), reg, P)

RegistryNames(reg) == [i \in DOMAIN reg |-> reg[i].name]

\* stop_all_mcpservers under restart_all_mcpservers, from the names in todo
\* on (lines 721-738): terminate the first running one and wait; when none
\* is left, load_config and start_all_mcpservers (lines 755-771).
StopAllNext(t, rec, S, todo) ==
    LET rest == SkipStopped(todo, S.reg, S.procs) IN
    IF rest = <<>>
    THEN StartAllFrom(t, rec, S, SelectSeq(ConfigOrder, LAMBDA n : n \in DOMAIN S.cfg))
    ELSE Done(t, [rec EXCEPT !.pc = "stopping", !.todo = rest,
                             !.proc = RegEntry(S.reg, Head(rest)).proc], S)

\* process.wait() returns in stop_mcpserver (lines 531-534): delete_mcpserver
\* goes on with lines 585-611 and the admin route reloads the endpoints;
\* restart_mcpserver goes on to start_mcpserver (lines 654-661);
\* stop_all_mcpservers goes on with the next name.
StopDone(t) ==
    /\ Up
    /\ tasks[t].pc = "stopping"
    /\ LET S1 == [Store EXCEPT !.procs = Exited(procs, tasks[t].proc)]
           rec == [tasks[t] EXCEPT !.stop_result = "success"]
       IN IF rec.op = "delete"
          THEN Done(t, Ret(tasks[t], "success"), ReloadRoutes(DeleteSync(S1, tasks[t].name)))
          ELSE IF rec.op = "restart"
          THEN StartMcp(t, rec, S1, "admin_restart")
          ELSE StopAllNext(t, rec, S1, Tail(rec.todo))
    /\ UNCHANGED <<users, rpc, nops, sseVars, sd>>

\* POST /admin/mcpserver/<name>/restart: restart_mcpserver lines 628-661.
\* The spec is the one in config.json, or the entry's when config.json has
\* none.  stop_mcpserver raises KeyError inside its try block for an entry
\* without a process and returns status error, returns success for a
\* process that has exited, and else terminates the process and waits; its
\* result is only logged.
AdminRestart(t, name) ==
    /\ Begin(t)
    /\ nops' = nops + 1
    /\ LET rec0 == [NewTask("restart", "admin", Anonymous) EXCEPT !.name = name]
       IN IF ~InReg(mcpservers, name)
          THEN Done(t, Ret(rec0, "failed"), Store)
          ELSE LET e == Entry(name)
                   rec == [rec0 EXCEPT
                              !.spec = IF name \in DOMAIN config THEN config[name] ELSE e.spec,
                              !.old = e.proc,
                              !.gate = e.status,
                              !.before = Cardinality(e.tools)]
               IN IF Alive(e.proc)
                  THEN Done(t, [rec EXCEPT !.pc = "stopping", !.proc = e.proc], Store)
                  ELSE StartMcp(t, [rec EXCEPT !.stop_result =
                                        IF e.proc = NoProc THEN "error" ELSE "success"],
                                Store, "admin_restart")
    /\ UNCHANGED <<users, rpc, sseVars, sd>>

\* POST /admin/mcpservers/restart: restart_all_mcpservers, lines 750-753, and
\* stop_all_mcpservers over its snapshot of the registered names.
AdminRestartAll(t) ==
    /\ Begin(t)
    /\ nops' = nops + 1
    /\ StopAllNext(t, NewTask("restart_all", "admin", Anonymous), Store,
                   RegistryNames(mcpservers))
    /\ UNCHANGED <<users, rpc, sseVars, sd>>

\* POST /user/mcpserver/<base>: start_private_server, lines 97-159.
StartPrivateServer(t, username, server_name) ==
    /\ Begin(t)
    /\ nops' = nops + 1
    /\ LET private_server_name == get_private_server_name(username, server_name)
           rec == [NewTask("private", "user", username) EXCEPT
                      !.name = private_server_name,
                      !.spec = ServerSpec(server_name, username),
                      !.found = IF InReg(mcpservers, server_name) THEN server_name ELSE ""]
       IN IF ~InReg(mcpservers, server_name)
          THEN Done(t, Ret(rec, "failed"), Store)
          ELSE IF InReg(mcpservers, private_server_name)
          THEN Done(t, Ret(rec, "success"), Store)
          ELSE IF start_private_try(username, server_name) = "error"
          THEN Done(t, Ret(rec, "failed"), Store)
          ELSE StartMcp(t, rec, Store, "private")
    /\ UNCHANGED <<users, rpc, sseVars, sd>>

\* DELETE /user/mcpserver/<base>: stop_private_server, lines 161-210.
\* Without a mapping entry of the user for the base the call returns status
\* error (lines 175-182); with one, self.parent.stop_server (line 189) is
\* not an attribute of the service, the AttributeError is caught at line 208
\* and the call returns status error as well.  Nothing is stopped or
\* removed.  The route ignores the result and answers 204.
StopPrivateServer(t, username, server_name) ==
    /\ Begin(t)
    /\ nops' = nops + 1
    /\ LET mapped == \E m \in private_server_mapping :
                         m[1] = username /\ m[2] = server_name
           rec == [NewTask("stop_private", "user", username) EXCEPT
                      !.name = get_private_server_name(username, server_name),
                      !.found = server_name,
                      !.gate = IF mapped THEN "stop_server" ELSE "mapping",
                      !.stop_result = "error"]
       IN Done(t, Ret(rec, "success"), Store)
    /\ UNCHANGED <<users, rpc, sseVars, sd>>

\* periodic_idle_server_cleanup calls cleanup_idle_private_servers, lines
\* 212-267.  expired lists the private names whose recorded time is older
\* than their timeout at the time of the call.  The loop of lines 224-236
\* goes through the mapping; for an entry with a recorded time it calls
\* get_server_timeout, which raises (get_user is not awaited, line 68), and
\* the periodic task logs the error.  Without such an entry nothing is
\* collected and the call returns success with no cleaned server.
CleanupIdle(t, expired) ==
    /\ Begin(t)
    /\ nops' = nops + 1
    /\ LET timed == \E m \in private_server_mapping : m[3] \in server_start_times
           rec == [NewTask("cleanup", "periodic", Anonymous) EXCEPT
                      !.todo = expired, !.tool_count = 0]
       IN Done(t, Ret(rec, IF timed THEN "raised" ELSE "success"), Store)
    /\ UNCHANGED <<users, rpc, sseVars, sd>>

\* A failed start that leaves an entry behind.
SpawnFailedRegisters(S, rec) ==
    [S EXCEPT !.reg = RegPut(S.reg, NewEntry(rec.name, {}, NoProc, "error", rec.spec))]

\* start_mcpserver, lines 324-326: create_subprocess_exec raised before
\* line 291 stored anything; the except returns status error.
SpawnFailed(S, rec) == S

\* create_subprocess_exec returns or raises (start_mcpserver lines 262-306,
\* fetch_server_metadata lines 339-365 up to the sleep).
SpawnDone(t, ok) ==
    /\ Up
    /\ tasks[t].pc = "spawning"
    /\ IF ok
       THEN /\ CanSpawn(procs)
            /\ LET p == FreshPid(procs)
                   rec == tasks[t]
                   P1 == [procs EXCEPT ![p] = [NoProcess EXCEPT !.state = "running",
                                                   !.name = rec.name, !.spec = rec.spec]]
                   reg1 == RegPut(mcpservers,
                                  NewEntry(rec.name, {}, p, "initializing", rec.spec))
               IN Done(t, [rec EXCEPT !.pc = "disc_sleep", !.proc = p, !.spawned = p],
                       [Store EXCEPT !.procs = P1, !.reg = reg1])
       ELSE AfterStart(t, tasks[t], SpawnFailed(Store, tasks[t]), FALSE)
    /\ UNCHANGED <<users, rpc, nops, sseVars, sd>>

\* fetch_server_metadata after the sleep, lines 367-381: tools/list is
\* written and the reply is read.
DiscoveryRequest(t) ==
    /\ Up
    /\ tasks[t].pc = "disc_sleep"
    /\ LET rec == tasks[t]
           p == rec.proc
           req == [id |-> RequestId(rec.inv), inv |-> rec.inv, kind |-> "list"]
           P1 == StdinWrite(procs, p, req)
           out == ReadOutcome(procs, p)
       IN IF ~Alive(p)
          THEN DiscoveryFinish(t, rec, Store, NoLine)
          ELSE IF out = "line"
          THEN DiscoveryFinish(t, rec,
                   [Store EXCEPT !.procs = [P1 EXCEPT ![p].stdout = Tail(@)]],
                   Head(procs[p].stdout))
          ELSE IF out = "wait"
          THEN Done(t, [rec EXCEPT !.pc = "disc_read"],
                    [Store EXCEPT !.procs = [P1 EXCEPT ![p].waiter = t]])
          ELSE DiscoveryFinish(t, rec, [Store EXCEPT !.procs = P1], NoLine)
    /\ UNCHANGED <<users, rpc, nops, sseVars, sd>>

\* A reader woken by data or end of file on the stream resumes inside
\* readline: invoke_tool lines 172-200, fetch_server_metadata lines 381-491.
ReadLine(t) ==
    /\ Up
    /\ tasks[t].pc \in {"reading", "disc_read"}
    /\ procs[tasks[t].proc].waiter # t
    /\ LET rec == tasks[t]
           p == rec.proc
           out == ReadOutcome(procs, p)
           line == IF out = "line" THEN Head(procs[p].stdout) ELSE NoLine
           S1 == IF out = "line"
                 THEN [Store EXCEPT !.procs = [procs EXCEPT ![p].stdout = Tail(@)]]
                 ELSE Store
       IN IF out = "wait"
          THEN Done(t, rec, [Store EXCEPT !.procs = [procs EXCEPT ![p].waiter = t]])
          ELSE IF rec.pc = "disc_read"
          THEN DiscoveryFinish(t, rec, S1, line)
          ELSE IF out = "line"
          THEN Done(t, Ret([rec EXCEPT !.got = line.inv], LineResult(line)), S1)
          ELSE Done(t, Ret(rec, "error"), S1)
    /\ UNCHANGED <<users, rpc, nops, sseVars, sd>>

\* The child answers one of the requests it has read, in any order; the
\* line reaches the stream and wakes the reader.
ChildReply(p, req) ==
    /\ Up
    /\ procs[p].state = "running"
    /\ req \in procs[p].inflight
    /\ procs' = [procs EXCEPT ![p].inflight = @ \ {req},
                              ![p].stdout = Append(@, req),
                              ![p].waiter = NoTask]
    /\ UNCHANGED <<mcpservers, config, cache, routes, private_server_mapping,
                   server_start_times, users, rpc, tasks, nops, message_queues, last_response,
                   sseVars, sd>>

\* The child prints a line nobody asked for: a notification (a JSON-RPC
\* message without id) or text that is not JSON.  It reaches the stream and
\* wakes the reader like any other line.
ChildEmit(p, kind) ==
    /\ sd.pc = "run"
    /\ nops < MaxOps
    /\ procs[p].state = "running"
    /\ procs' = [procs EXCEPT ![p].stdout = Append(@, [id |-> 0, inv |-> 0, kind |-> kind]),
                              ![p].waiter = NoTask]
    /\ nops' = nops + 1
    /\ UNCHANGED <<mcpservers, config, cache, routes, private_server_mapping,
                   server_start_times, users, rpc, tasks, message_queues, last_response,
                   sseVars, sd>>

\* The child crashes.
ChildExit(p) ==
    /\ sd.pc = "run"
    /\ nops < MaxOps
    /\ procs[p].state = "running"
    /\ procs' = Exited(procs, p)
    /\ nops' = nops + 1
    /\ UNCHANGED <<mcpservers, config, cache, routes, private_server_mapping,
                   server_start_times, users, rpc, tasks, message_queues, last_response,
                   sseVars, sd>>

\* The response has gone out; the handler slot is free again.
Return(t) ==
    /\ Up
    /\ tasks[t].pc = "done"
    /\ tasks' = [tasks EXCEPT ![t] = IdleTask]
    /\ UNCHANGED <<mcpservers, procs, config, cache, routes, private_server_mapping,
                   server_start_times, users, rpc, nops, message_queues, last_response,
                   sseVars, sd>>

(***************************************************************************)
(* The SSE transport and the POST /mcp/message handlers.                   *)
(***************************************************************************)
\* no entry in message_queues
NoQueue == [open |-> FALSE, msgs |-> <<>>]

NoMessage == [inv |-> 0, code |-> 0, method |-> ""]

\* a connection slot without a stream
NoStream == [sid |-> "", backlog |-> 0, events |-> <<>>]

\* the frames of a stream
EndpointEvent(sid) ==
    [event |-> "endpoint", data |-> "/mcp/message?session_id=" \o sid, msg |-> NoMessage]

MessageEvent(m) == [event |-> "message", data |-> "", msg |-> m]

\* A stream that empties its queue before it announces the endpoint.
BacklogFirst(q, sid) ==
    [i \in 1..Len(q) |-> MessageEvent(q[i])] \o <<EndpointEvent(sid)>>

\* handle_sse_connection lines 82-88: what the generator yields before it
\* reads its queue q for the first time.
FirstEvents(q, sid) == <<EndpointEvent(sid)>>

\* A queue that hands out its newest message.
QueueGetLast(q) == <<q[Len(q)], SubSeq(q, 1, Len(q) - 1)>>

\* asyncio.Queue.get on a queue that is not empty: the oldest message and
\* what stays behind.
QueueGet(q) == <<Head(q), Tail(q)>>

\* An id that uuid.uuid4() can return: one the transport has never seen.
UnusedId(s) == ~message_queues[s].open /\ client_info[s] = "absent"

\* A check that lets every session through.
check_client_always(sid) == TRUE

\* check_client_initialized, lines 100-107
check_client_initialized(sid) == client_info[sid] = "initialized"

\* GET /mcp/sse: handle_sse_connection lines 46-88 and SseConnection.__aenter__.
\* While shutting_down the generator returns at once.  A client_id that is
\* a UUID names the session; any other gets a session id of its own.  The
\* queue and the client record are created only when the id has no queue.
OpenStream(c, client_id) ==
    /\ Up
    /\ ~shutting_down
    /\ c \notin connection_tasks
    /\ validate_session_id(client_id) \/ \E s \in Sids : UnusedId(s)
    /\ LET sid == IF validate_session_id(client_id) THEN uuid_str(client_id)
                  ELSE CHOOSE s \in Sids : UnusedId(s)
       IN /\ message_queues' = IF message_queues[sid].open THEN message_queues
                               ELSE [message_queues EXCEPT ![sid] = [open |-> TRUE, msgs |-> <<>>]]
          /\ client_info' = IF message_queues[sid].open THEN client_info
                            ELSE [client_info EXCEPT ![sid] = "uninitialized"]
          /\ active_connections' = [active_connections EXCEPT ![sid] = "active"]
          /\ streams' = [streams EXCEPT ![c] =
                            [sid |-> sid,
                             backlog |-> Len(message_queues[sid].msgs),
                             events |-> FirstEvents(message_queues[sid].msgs, sid)]]
    /\ connection_tasks' = connection_tasks \cup {c}
    /\ UNCHANGED <<supVars, shutting_down, sd, last_response>>

\* The client goes away: the generator is cancelled and leaves through
\* SseConnection.__aexit__, lines 249-268.
CloseStream(c) ==
    /\ Up
    /\ c \in connection_tasks
    /\ active_connections' =
          IF active_connections[streams[c].sid] = "absent" THEN active_connections
          ELSE [active_connections EXCEPT ![streams[c].sid] = "inactive"]
    /\ connection_tasks' = connection_tasks \ {c}
    /\ streams' = [streams EXCEPT ![c] = NoStream]
    /\ UNCHANGED <<supVars, client_info, message_queues, shutting_down, sd,
                   last_response>>

\* The stream's loop takes a message from its session's queue and yields it
\* (handle_sse_connection lines 90-109).
Deliver(c) ==
    /\ Up
    /\ ~shutting_down
    /\ c \in connection_tasks
    /\ message_queues[streams[c].sid].open
    /\ message_queues[streams[c].sid].msgs # <<>>
    /\ LET got == QueueGet(message_queues[streams[c].sid].msgs)
       IN /\ message_queues' = [message_queues EXCEPT ![streams[c].sid].msgs = got[2]]
          /\ streams' = [streams EXCEPT ![c].events = Append(@, MessageEvent(got[1]))]
    /\ UNCHANGED <<supVars, client_info, active_connections, connection_tasks,
                   shutting_down, sd, last_response>>

\* A POST /mcp/message is taken and counted.
PostBegin == sd.pc = "run" /\ nops < MaxOps

\* The step of a handler that returns at once: S is what it leaves.
PostCommit(S) ==
    /\ message_queues' = S.mq
    /\ last_response' = S.resp
    /\ nops' = nops + 1
    /\ UNCHANGED <<mcpservers, procs, config, cache, routes, private_server_mapping,
                   server_start_times, users, rpc, tasks, active_connections,
                   connection_tasks, shutting_down, sd, streams>>

\* message_endpoint lines 115-118: a session id that is not a UUID.
InvalidSession(id, method) ==
    Reply(Store, Response(nops + 1, id, method, -32602, FALSE), FALSE)

\* POST /mcp/message, method initialize: handle_initialize lines 46-91.
PostInitialize(id) ==
    /\ PostBegin
    /\ IF ~validate_session_id(id)
       THEN /\ PostCommit(InvalidSession(id, "initialize"))
            /\ UNCHANGED client_info
       ELSE LET sid == uuid_str(id) IN
            /\ client_info' = [client_info EXCEPT ![sid] = "uninitialized"]
            /\ PostCommit(Reply(Store, Response(nops + 1, sid, "initialize", 0,
                                                HasStream(sid)), TRUE))

\* POST /mcp/message, method initialized or notifications/initialized:
\* handle_initialized lines 35-54.  The answer is {}; for an unknown session
\* nothing else happens.
PostInitialized(id) ==
    /\ PostBegin
    /\ IF ~validate_session_id(id)
       THEN /\ PostCommit(InvalidSession(id, "initialized"))
            /\ UNCHANGED client_info
       ELSE LET sid == uuid_str(id)
                r == Response(nops + 1, sid, "initialized", 0, HasStream(sid))
            IN IF client_info[sid] = "absent"
               THEN /\ PostCommit(Reply(Store, r, FALSE))
                    /\ UNCHANGED client_info
               ELSE /\ client_info' = [client_info EXCEPT ![sid] = "initialized"]
                    /\ PostCommit(send_message([Store EXCEPT !.resp = r], sid,
                                     [inv |-> nops + 1, code |-> 0, method |-> "server/ready"]))

\* POST /mcp/message, method tools/list: handle_tools_list lines 37-110.
PostToolsList(id) ==
    /\ PostBegin
    /\ UNCHANGED client_info
    /\ IF ~validate_session_id(id)
       THEN PostCommit(InvalidSession(id, "tools/list"))
       ELSE LET sid == uuid_str(id) IN
            PostCommit(Reply(Store,
                Response(nops + 1, sid, "tools/list",
                         IF check_client_initialized(sid) THEN 0 ELSE -32002,
                         HasStream(sid)), TRUE))

\* POST /mcp/message with a method the endpoint does not know:
\* message_endpoint lines 159-166.
PostUnknownMethod(id) ==
    /\ PostBegin
    /\ UNCHANGED client_info
    /\ IF ~validate_session_id(id)
       THEN PostCommit(InvalidSession(id, "unknown"))
       ELSE PostCommit(Reply(Store, Response(nops + 1, uuid_str(id), "unknown", -32601,
                                             HasStream(uuid_str(id))), FALSE))

\* POST /mcp/message, method tools/call: message_endpoint lines 115-130 (the
\* session id and the JSON-RPC envelope), handle_tools_call lines 37-52 (the
\* initialization gate) and line 79 (invoke_tool without a username).
PostToolsCall(t, id, wellformed, tool) ==
    /\ Begin(t)
    /\ nops' = nops + 1
    /\ LET sid == IF validate_session_id(id) THEN uuid_str(id) ELSE id
           rec == [NewTask("invoke", "sse", Anonymous) EXCEPT
                      !.tool = tool, !.sid = sid,
                      !.streaming = HasStream(sid),
                      !.gate = IF ~validate_session_id(id) THEN "invalid"
                               ELSE IF ~wellformed THEN "malformed"
                               ELSE client_info[sid]]
       IN IF ~validate_session_id(id)
          THEN Done(t, Ret(rec, "invalid_session"), Store)
          ELSE IF ~wellformed
          THEN Done(t, Ret(rec, "invalid_request"), Store)
          ELSE IF ~check_client_initialized(sid)
          THEN Done(t, Ret(rec, "not_initialized"), Store)
          ELSE InvokeTool(t, rec, Store)
    /\ UNCHANGED <<users, rpc, sseVars, sd>>

(***************************************************************************)
(* shutdown_event: SseTransport.shutdown, then stop_all_mcpservers, then   *)
(* os._exit(0).  The force-exit timer is not modelled.                     *)
(***************************************************************************)
\* stop_all_mcpservers from the names in todo on: terminate the first
\* running one and wait, or return to shutdown_event, which exits.
StopAllFrom(todo, P) ==
    LET rest == SkipStopped(todo, mcpservers, P) IN
    IF rest = <<>>
    THEN sd' = [pc |-> "exited", todo |-> <<>>, proc |-> NoProc]
    ELSE sd' = [pc |-> "stop_wait", todo |-> rest,
                proc |-> RegEntry(mcpservers, Head(rest)).proc]

\* SseTransport.shutdown lines 197-212 and the start of stop_all_mcpservers.
ClearSessions ==
    /\ message_queues' = [s \in Sids |-> NoQueue]
    /\ client_info' = [s \in Sids |-> "absent"]
    /\ active_connections' = [s \in Sids |-> "absent"]
    /\ connection_tasks' = {}
    /\ streams' = [c \in Conns |-> NoStream]
    /\ StopAllFrom(RegistryNames(mcpservers), procs)

\* shutdown_event starts: SseTransport.shutdown lines 169-172.
ShutdownBegin ==
    /\ sd.pc = "run"
    /\ shutting_down' = TRUE
    /\ sd' = [sd EXCEPT !.pc = "sse_sleep"]
    /\ UNCHANGED <<supVars, client_info, message_queues, active_connections,
                   connection_tasks, streams, last_response>>

\* After the first sleep, lines 174-194: the connection tasks are cancelled
\* and leave through __aexit__ during the second sleep; with no connection
\* task there is no second sleep.
SseCancel ==
    /\ sd.pc = "sse_sleep"
    /\ IF connection_tasks # {}
       THEN /\ active_connections' =
                  [s \in Sids |-> IF HasStream(s) /\ active_connections[s] # "absent"
                                  THEN "inactive" ELSE active_connections[s]]
            /\ connection_tasks' = {}
            /\ streams' = [c \in Conns |-> NoStream]
            /\ sd' = [sd EXCEPT !.pc = "sse_cancelled"]
            /\ UNCHANGED <<client_info, message_queues>>
       ELSE ClearSessions
    /\ UNCHANGED <<supVars, shutting_down, last_response>>

\* After the second sleep, lines 196-212.
SseClear ==
    /\ sd.pc = "sse_cancelled"
    /\ ClearSessions
    /\ UNCHANGED <<supVars, shutting_down, last_response>>

\* process.wait() returns in stop_mcpserver under stop_all_mcpservers.
StopAllWaitDone ==
    /\ sd.pc = "stop_wait"
    /\ procs' = Exited(procs, sd.proc)
    /\ StopAllFrom(Tail(sd.todo), Exited(procs, sd.proc))
    /\ UNCHANGED <<mcpservers, config, cache, routes, private_server_mapping,
                   server_start_times, users, rpc, tasks, nops, message_queues, last_response,
                   sseVars>>

(***************************************************************************)
(* From the line a child prints to the reply of tools/call: the parsing in *)
(* invoke_tool and the mapping in handle_tools_call.  A line is the JSON   *)
(* object it holds: whether it has a "jsonrpc" member, its "error" member  *)
(* (absent, null, {} or an object with code and message) and its "result"  *)
(* member (absent, not an object, or an object with or without content and *)
(* isError).                                                               *)
(***************************************************************************)
NoError == [kind |-> "absent", code |-> 0, message |-> ""]
ErrorMembers ==
    {[kind |-> k, code |-> 0, message |-> ""] : k \in {"absent", "null", "empty"}}
    \cup {[kind |-> "object", code |-> c, message |-> m] : c \in {-32601, -32000, 0}, m \in {"Method not found", ""}}
ResultMembers ==
    {[kind |-> k, content |-> "absent", isError |-> "absent"] : k \in {"absent", "scalar"}}
    \cup {[kind |-> "object", content |-> c, isError |-> e] :
             c \in {"absent", "empty", "text"}, e \in {"absent", "true", "false"}}
ChildLines == [jsonrpc : BOOLEAN, error : ErrorMembers, result : ResultMembers]

\* invoke_tool, lines 178-200: what it returns for the line read.
invoke_tool_result(line) ==
    IF ~line.jsonrpc
    THEN [tag |-> "status", message |-> "Invalid JSON-RPC response",
          error |-> NoError, result |-> line.result]
    ELSE IF line.error.kind # "absent"
    THEN [tag |-> "error", message |-> "", error |-> line.error,
          result |-> [kind |-> "absent", content |-> "absent", isError |-> "absent"]]
    ELSE IF line.result.kind # "absent"
    THEN [tag |-> "response", message |-> "", error |-> NoError, result |-> line.result]
    ELSE [tag |-> "status", message |-> "Missing 'result' in response",
          error |-> NoError, result |-> line.result]

\* `if error:` -- None and {} are false, an object with members is true
Truthy(error) == error.kind = "object"

\* handle_tools_call, lines 82-126: the reply made of invoke_tool's result.
\* result["result"].get("content", []) and .get("isError", False) give the
\* defaults where the member is missing.
handle_tools_call_response(r) ==
    LET error == IF r.tag = "error" THEN r.error
                 ELSE IF r.tag = "status"
                 THEN [kind |-> "object", code |-> -32603, message |-> r.message]
                 ELSE NoError
        nested == r.tag = "response" /\ r.result.kind = "object"
    IN IF Truthy(error)
       THEN [kind |-> "error", code |-> error.code, message |-> error.message,
             content |-> "empty", isError |-> "false"]
       ELSE [kind |-> "result", code |-> 0, message |-> "",
             content |-> IF nested /\ r.result.content # "absent"
                         THEN r.result.content ELSE "empty",
             isError |-> IF nested /\ r.result.isError # "absent"
                         THEN r.result.isError ELSE "false"]

NoExchange == [stage |-> "none",
               line |-> [jsonrpc |-> FALSE, error |-> NoError,
                         result |-> [kind |-> "absent", content |-> "absent",
                                     isError |-> "absent"]],
               response |-> [kind |-> "result", code |-> 0, message |-> "",
                             content |-> "empty", isError |-> "false"]]

\* handle_tools_call answers a call whose child has printed rpc.line.
AnswerToolsCall ==
    /\ rpc.stage = "read"
    /\ rpc' = [rpc EXCEPT !.stage = "answered",
                          !.response = handle_tools_call_response(invoke_tool_result(rpc.line))]
    /\ UNCHANGED <<mcpservers, procs, config, cache, routes, private_server_mapping,
                   server_start_times, users, tasks, nops, message_queues, last_response,
                   sseVars, sd>>

(***************************************************************************)
(* The state after startup_event: McpServerLifecycleService.initialize     *)
(* (lines 40-99) has gone through config.json in order; a server with a    *)
(* cache file got an entry with its cached tools and no process, the       *)
(* others were started and their cache written.  ToolsRouter.initialize    *)
(* built the endpoints.                                                    *)
(***************************************************************************)
StartupPid(cached, i) == Cardinality({j \in 1..i : ConfigOrder[j] \notin cached})

StartupRegistry(cached) ==
    [i \in DOMAIN ConfigOrder |->
        LET n == ConfigOrder[i] IN
        IF n \in cached
        THEN NewEntry(n, ChildTools(ServerSpec(n, Anonymous)), NoProc, "cached",
                      ServerSpec(n, Anonymous))
        ELSE NewEntry(n, ChildTools(ServerSpec(n, Anonymous)), StartupPid(cached, i),
                      "running", ServerSpec(n, Anonymous))]

StartupProcs(cached) ==
    [p \in Pids |->
        IF \E i \in DOMAIN ConfigOrder : ConfigOrder[i] \notin cached /\ StartupPid(cached, i) = p
        THEN LET i == CHOOSE j \in DOMAIN ConfigOrder :
                          ConfigOrder[j] \notin cached /\ StartupPid(cached, j) = p
             IN [NoProcess EXCEPT !.state = "running", !.name = ConfigOrder[i],
                                  !.spec = ServerSpec(ConfigOrder[i], Anonymous)]
        ELSE NoProcess]

\* A user record: whether it carries a global env block.
UserRecords == [env : BOOLEAN]

Running == [pc |-> "run", todo |-> <<>>, proc |-> NoProc]

Init ==
    /\ \E cached \in SUBSET BaseServers :
          /\ mcpservers = StartupRegistry(cached)
          /\ procs = StartupProcs(cached)
          /\ routes = ListTools(StartupRegistry(cached), StartupProcs(cached))
    /\ config = [n \in BaseServers |-> ServerSpec(n, Anonymous)]
    /\ cache = [n \in BaseServers |-> ChildTools(ServerSpec(n, Anonymous))]
    /\ private_server_mapping = {}
    /\ server_start_times = {}
    /\ users \in [Users -> UserRecords]
    /\ tasks = [t \in Tasks |-> IdleTask]
    /\ nops = 0
    /\ client_info = [s \in Sids |-> "absent"]
    /\ message_queues = [s \in Sids |-> NoQueue]
    /\ active_connections = [s \in Sids |-> "absent"]
    /\ connection_tasks = {}
    /\ shutting_down = FALSE
    /\ sd = Running
    /\ streams = [c \in Conns |-> NoStream]
    /\ last_response = NoResponse
    /\ rpc = NoExchange

Next ==
    \/ \E t \in Tasks, b \in BaseServers, u \in Users \cup {Anonymous} :
          \E tl \in ChildTools(ServerSpec(b, Anonymous)) : RestInvoke(t, b, tl, u)
    \/ \E t \in Tasks, b \in BaseServers : AdminAdd(t, b)
    \/ \E t \in Tasks, b \in BaseServers : AdminDelete(t, b)
    \/ \E t \in Tasks, u \in Users, b \in BaseServers : StartPrivateServer(t, u, b)
    \/ \E t \in Tasks, ok \in BOOLEAN : SpawnDone(t, ok)
    \/ \E t \in Tasks : DiscoveryRequest(t)
    \/ \E t \in Tasks : ReadLine(t)
    \/ \E t \in Tasks : StopDone(t)
    \/ \E t \in Tasks : Return(t)
    \/ \E p \in Pids : \E req \in procs[p].inflight : ChildReply(p, req)
    \/ \E p \in Pids : ChildExit(p)

Spec == Init /\ [][Next]_vars

\* An MCP session on one stream: the initialization handshake and tools/call
\* with the children behind it.
NextSse ==
    \/ OpenStream(1, "s1")
    \/ CloseStream(1)
    \/ Deliver(1)
    \/ PostInitialize("s1")
    \/ PostInitialized("s1")
    \/ \E t \in Tasks, wf \in BOOLEAN, tl \in ToolNames : PostToolsCall(t, "s1", wf, tl)
    \/ \E t \in Tasks, ok \in BOOLEAN : SpawnDone(t, ok)
    \/ \E t \in Tasks : DiscoveryRequest(t)
    \/ \E t \in Tasks : ReadLine(t)
    \/ \E t \in Tasks : Return(t)
    \/ \E p \in Pids : \E req \in procs[p].inflight : ChildReply(p, req)
    \/ \E p \in Pids : ChildExit(p)

SpecSse == Init /\ [][NextSse]_vars

\* The sessions of the transport: streams that open, reconnect and close
\* under every method of POST /mcp/message, with one tools/call at a time.
\* Startup found no cache file and started every server.
InitSession ==
    /\ Init
    /\ \A i \in DOMAIN mcpservers : mcpservers[i].proc # NoProc
    /\ \A u \in Users : ~users[u].env

NextSession ==
    \/ \E c \in Conns, id \in ClientIds : OpenStream(c, id)
    \/ \E c \in Conns : CloseStream(c)
    \/ \E c \in Conns : Deliver(c)
    \/ \E id \in ClientIds : PostInitialize(id)
    \/ \E id \in ClientIds : PostInitialized(id)
    \/ \E id \in ClientIds : PostToolsList(id)
    \/ \E id \in ClientIds : PostUnknownMethod(id)
    \/ \E id \in ClientIds, wf \in BOOLEAN : PostToolsCall(1, id, wf, "get_current_time")
    \/ ReadLine(1)
    \/ Return(1)
    \/ \E p \in Pids : \E req \in procs[p].inflight : ChildReply(p, req)

SpecSession == InitSession /\ [][NextSession]_vars

\* Invocations with the admin's restarts running into them.
NextRestart ==
    \/ \E t \in Tasks, b \in BaseServers :
          \E tl \in ChildTools(ServerSpec(b, Anonymous)) : RestInvoke(t, b, tl, Anonymous)
    \/ \E t \in Tasks, b \in BaseServers : AdminRestart(t, b)
    \/ \E t \in Tasks : AdminRestartAll(t)
    \/ \E t \in Tasks, ok \in BOOLEAN : SpawnDone(t, ok)
    \/ \E t \in Tasks : DiscoveryRequest(t)
    \/ \E t \in Tasks : ReadLine(t)
    \/ \E t \in Tasks : StopDone(t)
    \/ \E t \in Tasks : Return(t)
    \/ \E p \in Pids : \E req \in procs[p].inflight : ChildReply(p, req)

SpecRestart == Init /\ [][NextRestart]_vars

\* Invocations and streams with the shutdown sequence running into them.
NextShutdown ==
    \/ \E t \in Tasks, b \in BaseServers :
          \E tl \in ChildTools(ServerSpec(b, Anonymous)) : RestInvoke(t, b, tl, Anonymous)
    \/ \E t \in Tasks, ok \in BOOLEAN : SpawnDone(t, ok)
    \/ \E t \in Tasks : DiscoveryRequest(t)
    \/ \E t \in Tasks : ReadLine(t)
    \/ \E t \in Tasks : Return(t)
    \/ \E p \in Pids : \E req \in procs[p].inflight : ChildReply(p, req)
    \/ \E p \in Pids : ChildExit(p)
    \/ \E id \in ClientIds : OpenStream(1, id)
    \/ CloseStream(1)
    \/ ShutdownBegin
    \/ SseCancel
    \/ SseClear
    \/ StopAllWaitDone

SpecShutdown == Init /\ [][NextShutdown]_vars

\* One tools/call for every line a child can answer with.
InitReply ==
    /\ \E cached \in {{}} :
          /\ mcpservers = StartupRegistry(cached)
          /\ procs = StartupProcs(cached)
          /\ routes = ListTools(StartupRegistry(cached), StartupProcs(cached))
    /\ config = [n \in BaseServers |-> ServerSpec(n, Anonymous)]
    /\ cache = [n \in BaseServers |-> ChildTools(ServerSpec(n, Anonymous))]
    /\ private_server_mapping = {}
    /\ server_start_times = {}
    /\ users = [u \in Users |-> [env |-> FALSE]]
    /\ tasks = [t \in Tasks |-> IdleTask]
    /\ nops = 0
    /\ client_info = [s \in Sids |-> "initialized"]
    /\ message_queues = [s \in Sids |-> [open |-> TRUE, msgs |-> <<>>]]
    /\ active_connections = [s \in Sids |-> "active"]
    /\ connection_tasks = {}
    /\ shutting_down = FALSE
    /\ sd = Running
    /\ streams = [c \in Conns |-> NoStream]
    /\ last_response = NoResponse
    /\ \E line \in ChildLines : rpc = [NoExchange EXCEPT !.stage = "read", !.line = line]

NextReply == AnswerToolsCall

SpecReply == InitReply /\ [][NextReply]_vars

(***************************************************************************)
(* The whitelist/blacklist filter of a discovery reply.  A tool is         *)
(* represented by its name, "" for a descriptor without one; the lists     *)
(* are TOOLS_WHITELIST / TOOLS_BLACKLIST (McpServerService._parse_env_list)*)
(* and tools.whiteList / tools.blackList of the configuration.             *)
(***************************************************************************)
MaxTools == 3

\* A filter that only applies the environment lists.
keep_tool_env_only(tool_name, env_whitelist, env_blacklist, whiteList, blackList) ==
    /\ tool_name # ""
    /\ ~(env_whitelist # {} /\ tool_name \notin env_whitelist)
    /\ ~(env_blacklist # {} /\ tool_name \in env_blacklist)

\* The body of the filter loop: none of its `continue` is taken.
keep_tool(tool_name, env_whitelist, env_blacklist, whiteList, blackList) ==
    /\ tool_name # ""
    /\ ~(env_whitelist # {} /\ tool_name \notin env_whitelist)
    /\ ~(env_blacklist # {} /\ tool_name \in env_blacklist)
    /\ ~(tool_name \in blackList)
    /\ ~(whiteList # {} /\ tool_name \notin whiteList)

RECURSIVE filter_tools(_, _, _, _, _)
\* filter_tools: the tools kept, appended in the order of the raw list.
filter_tools(tools, env_whitelist, env_blacklist, whiteList, blackList) ==
    IF tools = <<>> THEN <<>>
    ELSE LET n == Len(tools)
             filtered_tools == filter_tools(SubSeq(tools, 1, n - 1), env_whitelist,
                                            env_blacklist, whiteList, blackList)
         IN IF keep_tool(tools[n], env_whitelist, env_blacklist, whiteList, blackList)
            THEN Append(filtered_tools, tools[n])
            ELSE filtered_tools

\* fetch_server_metadata stores the filtered tools of the reply rpc.raw.
StoreTools ==
    /\ rpc.stage = "listed"
    /\ rpc' = [rpc EXCEPT !.stage = "stored",
                          !.tools = filter_tools(rpc.raw, rpc.env_whitelist,
                                                 rpc.env_blacklist, rpc.whiteList,
                                                 rpc.blackList)]
    /\ UNCHANGED <<mcpservers, procs, config, cache, routes, private_server_mapping,
                   server_start_times, users, tasks, nops, message_queues, last_response,
                   sseVars, sd>>

\* One discovery for every reply and every setting of the four lists.
InitFilter ==
    /\ \E cached \in {{}} :
          /\ mcpservers = StartupRegistry(cached)
          /\ procs = StartupProcs(cached)
          /\ routes = ListTools(StartupRegistry(cached), StartupProcs(cached))
    /\ config = [n \in BaseServers |-> ServerSpec(n, Anonymous)]
    /\ cache = [n \in BaseServers |-> ChildTools(ServerSpec(n, Anonymous))]
    /\ private_server_mapping = {}
    /\ server_start_times = {}
    /\ users = [u \in Users |-> [env |-> FALSE]]
    /\ tasks = [t \in Tasks |-> IdleTask]
    /\ nops = 0
    /\ client_info = [s \in Sids |-> "initialized"]
    /\ message_queues = [s \in Sids |-> [open |-> TRUE, msgs |-> <<>>]]
    /\ active_connections = [s \in Sids |-> "active"]
    /\ connection_tasks = {}
    /\ shutting_down = FALSE
    /\ sd = Running
    /\ streams = [c \in Conns |-> NoStream]
    /\ last_response = NoResponse
    /\ LET FilterNames == {"", "echo", "add"}
           PolicyLists == SUBSET (FilterNames \ {""})
           RawLists == UNION {[1..n -> FilterNames] : n \in 0..MaxTools}
       IN \E raw \in RawLists, ew, eb, wl, bl \in PolicyLists :
          rpc = [stage |-> "listed", raw |-> raw, env_whitelist |-> ew,
                 env_blacklist |-> eb, whiteList |-> wl, blackList |-> bl,
                 tools |-> <<>>]

SpecFilter == InitFilter /\ [][StoreTools]_vars

\* The shutdown sequence with a session whose tools/call is in progress.
\* Startup found no cache file and started every server.
NextShutdownSse ==
    \/ \E id \in ClientIds : OpenStream(1, id)
    \/ CloseStream(1)
    \/ Deliver(1)
    \/ PostInitialized("s1")
    \/ PostToolsCall(1, "s1", TRUE, "get_current_time")
    \/ ReadLine(1)
    \/ Return(1)
    \/ \E p \in Pids : \E req \in procs[p].inflight : ChildReply(p, req)
    \/ ShutdownBegin
    \/ SseCancel
    \/ SseClear
    \/ StopAllWaitDone

SpecShutdownSse == InitSession /\ [][NextShutdownSse]_vars

\* The gateway with children that also print unsolicited lines.
NextStream ==
    \/ Next
    \/ \E p \in Pids, kind \in {"notification", "garbage"} : ChildEmit(p, kind)

SpecStream == Init /\ [][NextStream]_vars

\* The event loop runs every coroutine that can continue: a spawn that
\* returns, a discovery after its sleep, a reader with a line or an end of
\* file to read, a stop whose process has been reaped, a response to send.
\* Nothing obliges a child to answer or to exit.
SpecFair ==
    /\ Spec
    /\ \A t \in Tasks :
          /\ WF_vars(\E ok \in BOOLEAN : SpawnDone(t, ok))
          /\ WF_vars(DiscoveryRequest(t))
          /\ WF_vars(ReadLine(t))
          /\ WF_vars(StopDone(t))
          /\ WF_vars(Return(t))

\* A listing that leaves out every name with a "-" in it.
list_mcpservers_skip_dashed(reg, mapping) ==
    LET kept == SelectSeq(reg, LAMBDA e : e.name \notin PrivateNames)
    IN [i \in DOMAIN kept |-> kept[i].name]

\* list_mcpservers, lines 785-819: the registry in its order, without the
\* entries whose name contains "-" (of the names here, those of the form
\* base-user) and is a value of the private mapping.
list_mcpservers(reg, mapping) ==
    LET kept == SelectSeq(reg, LAMBDA e : ~(/\ e.name \in PrivateNames
                                            /\ \E m \in mapping : m[3] = e.name))
    IN [i \in DOMAIN kept |-> kept[i].name]

\* GET /mcpservers (public) and GET /admin/mcpservers: the names listed are
\* kept in todo.
ListMcpServers(t) ==
    /\ Begin(t)
    /\ nops' = nops + 1
    /\ Done(t, Ret([NewTask("list", "public", Anonymous) EXCEPT
                       !.todo = list_mcpservers(mcpservers, private_server_mapping)],
                   "success"), Store)
    /\ UNCHANGED <<users, rpc, sseVars, sd>>

\* The names an admin gives to shared servers: those of the configuration
\* and one with a "-", spelled like the private instance of a user.
SharedNames == BaseServers \cup {"time-donald"}

\* The listing under admin adds and deletes and the users' private starts
\* and stops.
NextList ==
    \/ \E t \in Tasks : ListMcpServers(t)
    \/ \E t \in Tasks, n \in SharedNames : AdminAdd(t, n)
    \/ \E t \in Tasks, n \in SharedNames : AdminDelete(t, n)
    \/ \E t \in Tasks, u \in Users, b \in BaseServers : StartPrivateServer(t, u, b)
    \/ \E t \in Tasks, u \in Users, b \in BaseServers : StopPrivateServer(t, u, b)
    \/ \E t \in Tasks, ok \in BOOLEAN : SpawnDone(t, ok)
    \/ \E t \in Tasks : DiscoveryRequest(t)
    \/ \E t \in Tasks : ReadLine(t)
    \/ \E t \in Tasks : StopDone(t)
    \/ \E t \in Tasks : Return(t)
    \/ \E p \in Pids : \E req \in procs[p].inflight : ChildReply(p, req)

SpecList == Init /\ [][NextList]_vars

\* The user routes of the private servers and the periodic cleanup.
NextPrivate ==
    \/ \E t \in Tasks, u \in Users, b \in BaseServers : StartPrivateServer(t, u, b)
    \/ \E t \in Tasks, u \in Users, b \in BaseServers : StopPrivateServer(t, u, b)
    \/ \E t \in Tasks, expired \in {<<>>} \cup {<<n>> : n \in PrivateNames} :
          CleanupIdle(t, expired)
    \/ \E t \in Tasks : Return(t)

SpecPrivate == Init /\ [][NextPrivate]_vars

(***************************************************************************)
(* Properties.                                                             *)
(***************************************************************************)
Invoking(t) == tasks[t].op = "invoke" /\ tasks[t].pc # "idle"

Finished(t) == tasks[t].pc = "done"

\* the step in which delete_mcpserver returns success to the admin route
DeleteReturns(t) ==
    /\ tasks[t].pc # "done"
    /\ tasks'[t].pc = "done"
    /\ tasks'[t].op = "delete"
    /\ tasks'[t].res = "success"

\* C1: a tools/call POST in a JSON-RPC 2.0 envelope to a session that is
\* unknown or not initialized is answered with error -32002 in the same
\* step; nothing of it is routed, written to a child or spawned.  (Without
\* the envelope the answer is -32600, with a session id that is no UUID
\* -32602, and equally nothing reaches a child.)
C1_NotInitialized ==
    \A t \in Tasks :
        (tasks[t].via = "sse" /\ tasks[t].gate # "" /\ tasks[t].gate # "initialized")
        => /\ Finished(t)
           /\ RpcCode(tasks[t].res) = IF tasks[t].gate = "invalid" THEN -32602
                                      ELSE IF tasks[t].gate = "malformed" THEN -32600
                                      ELSE -32002
           /\ tasks[t].target = ""
           /\ tasks[t].disp = NoProc
           /\ tasks[t].spawned = NoProc
           /\ \A p \in Pids :
                 /\ \A r \in procs[p].inflight : r.inv # tasks[t].inv
                 /\ \A k \in DOMAIN procs[p].stdout : procs[p].stdout[k].inv # tasks[t].inv

\* a session with an open stream that is not initialized has been refused a
\* tools/call, and the error is in its queue
C1_Witness ==
    \E t \in Tasks :
        /\ tasks[t].via = "sse" /\ Finished(t)
        /\ tasks[t].gate = "uninitialized"
        /\ tasks[t].res = "not_initialized"
        /\ active_connections[tasks[t].sid] = "active"
        /\ \E k \in DOMAIN message_queues[tasks[t].sid].msgs :
              message_queues[tasks[t].sid].msgs[k] =
                 [inv |-> tasks[t].inv, code |-> -32002, method |-> "tools/call"]

\* C2: concurrent invocations on the same child carry distinct request ids,
\* and every caller that gets a reply gets the reply to its own request.
C2_OwnReply ==
    /\ \A p \in Pids : \A r1, r2 \in procs[p].inflight :
          (r1.kind = "call" /\ r2.kind = "call" /\ r1 # r2) => r1.id # r2.id
    /\ \A t \in Tasks :
          (Invoking(t) /\ Finished(t) /\ tasks[t].res = "ok") => tasks[t].got = tasks[t].inv

\* C3: an invocation by an authenticated principal of a tool found on server
\* B is routed to the private child B-<user> when the principal has
\* overrides and to the shared child B when not.
C3_PrivateIffOverrides ==
    \A t \in Tasks :
        (Invoking(t) /\ Finished(t) /\ tasks[t].user # Anonymous /\ tasks[t].found # "")
        => tasks[t].target =
              IF users[tasks[t].user].env
              THEN get_private_server_name(tasks[t].user, tasks[t].found)
              ELSE tasks[t].found

C5_OnePrivateChild ==
    \A t \in Tasks :
        (tasks[t].op = "private" /\ Finished(t) /\ tasks[t].found # "")
        => /\ tasks[t].res = "success"
           /\ Cardinality({p \in Pids : procs[p].name = tasks[t].name
                                         /\ procs[p].state = "running"}) = 1
           /\ Cardinality({m \in private_server_mapping :
                              m[1] = tasks[t].user /\ m[2] = tasks[t].found}) = 1

\* C6: once the shutdown sequence has completed, no registry entry holds a
\* running process and no session is active.
C6_ShutdownStopsAll ==
    sd.pc = "exited"
    => /\ \A i \in DOMAIN mcpservers : ~Alive(mcpservers[i].proc)
       /\ \A sid \in Sids : active_connections[sid] # "active"

\* C7: in the state in which delete_mcpserver(name) returns success, the
\* registry has no entry for name, list_tools has no tool of name, the cache
\* file and the spec are gone, and no endpoint /tool/<name>/... is left, so
\* that an invocation of it is answered 404.
C7_DeleteRemoves ==
    [][\A t \in Tasks :
          DeleteReturns(t) =>
             LET n == tasks'[t].name IN
             /\ ~InReg(mcpservers', n)
             /\ \A tl \in ToolNames : <<n, tl>> \notin ListTools(mcpservers', procs')
             /\ n \notin DOMAIN cache'
             /\ n \notin DOMAIN config'
             /\ \A tl \in ToolNames : <<n, tl>> \notin routes'
             /\ \A tl \in ToolNames : FindServer(mcpservers', tl) # n]_vars

\* a delete of a server whose process was running has returned success
C7_Witness ==
    \E t \in Tasks :
        /\ tasks[t].op = "delete" /\ Finished(t) /\ tasks[t].res = "success"
        /\ tasks[t].proc # NoProc
        /\ procs[tasks[t].proc].state = "exited"
        /\ ~InReg(mcpservers, tasks[t].name)
        /\ tasks[t].name \notin DOMAIN cache

\* C8: an invocation that finds the child exited restarts it from the
\* stored spec: whatever it writes goes to a new process of the same name
\* and spec, a reply implies such a dispatch, and without a reply the
\* caller gets the error result.
C8_RestartOnExit ==
    \A t \in Tasks :
        (Invoking(t) /\ tasks[t].old # NoProc)
        => /\ tasks[t].cont = "restart"
           /\ tasks[t].disp # NoProc =>
                 /\ tasks[t].disp # tasks[t].old
                 /\ procs[tasks[t].disp].name = procs[tasks[t].old].name
                 /\ procs[tasks[t].disp].spec = procs[tasks[t].old].spec
           /\ Finished(t) =>
                 \/ tasks[t].res = "ok" /\ tasks[t].disp # NoProc
                 \/ tasks[t].res = "error"

\* an invocation found the child exited and got its reply from a new process
C8_Witness ==
    \E t \in Tasks :
        /\ Invoking(t) /\ Finished(t) /\ tasks[t].old # NoProc
        /\ tasks[t].res = "ok"
        /\ tasks[t].disp # tasks[t].old
        /\ procs[tasks[t].disp].state = "running"

\* C9: a server's spec leaves config.json, and its cache file is deleted,
\* only in a step of an admin delete of that server.
C9_OnlyAdminRemovesSpec ==
    [][\A n \in Names :
          (\/ n \in DOMAIN config /\ n \notin DOMAIN config'
           \/ n \in DOMAIN cache /\ n \notin DOMAIN cache')
          => \E t \in Tasks : /\ tasks'[t] # tasks[t]
                              /\ tasks'[t].op = "delete"
                              /\ tasks'[t].name = n]_vars

\* C10: an invocation that lazy-starts a cached server, whose spawn succeeds
\* and whose process stays up, dispatches to the process it spawned and
\* leaves the entry running on that process; and an entry loaded from the
\* cache has no process.
C10_LazyStart ==
    /\ \A i \in DOMAIN mcpservers :
          mcpservers[i].status = "cached" => mcpservers[i].proc = NoProc
    /\ \A t \in Tasks :
          (/\ Invoking(t) /\ Finished(t) /\ tasks[t].lazy
           /\ tasks[t].spawned # NoProc
           /\ procs[tasks[t].spawned].state = "running")
          => /\ tasks[t].disp = tasks[t].spawned
             /\ InReg(mcpservers, tasks[t].name)
             /\ Entry(tasks[t].name).proc = tasks[t].spawned
             /\ Entry(tasks[t].name).status = "running"

\* C11: the first event of every stream opened while the transport is not
\* shutting down is `endpoint` with data "/mcp/message?session_id=" followed
\* by the session's id; everything after it is a `message` event, also when
\* messages were waiting in the session's queue before the stream read it.
C11_EndpointFirst ==
    \A c \in connection_tasks :
        /\ streams[c].sid \in Sids
        /\ streams[c].events # <<>>
        /\ streams[c].events[1].event = "endpoint"
        /\ streams[c].events[1].data = "/mcp/message?session_id=" \o streams[c].sid
        /\ \A k \in 2..Len(streams[c].events) : streams[c].events[k].event = "message"

\* a stream that found messages queued for its session when it opened has
\* yielded the endpoint and then the first of them
C11_Witness ==
    \E c \in connection_tasks :
        /\ streams[c].backlog > 0
        /\ Len(streams[c].events) >= 2
        /\ streams[c].events[1].event = "endpoint"
        /\ streams[c].events[2].event = "message"

\* the messages of a sequence of events or of a queue, as a set
EmittedOn(c) == {streams[c].events[k].msg :
                    k \in {j \in DOMAIN streams[c].events : streams[c].events[j].event = "message"}}

Queued(sid) == {message_queues[sid].msgs[k] : k \in DOMAIN message_queues[sid].msgs}

\* C12: the messages send_message accepts for a session are emitted in the
\* order in which they were queued, each at most once: a stream emits only
\* the oldest message of its session's queue and takes it out, a queue
\* otherwise only grows at its end by a message that is neither queued nor
\* emitted yet, and no message is at once queued and emitted, queued twice
\* or emitted twice, however the handlers that produce them interleave.
C12_Fifo ==
    /\ [](\A sid \in Sids :
            /\ \A j, k \in DOMAIN message_queues[sid].msgs :
                  message_queues[sid].msgs[j] = message_queues[sid].msgs[k] => j = k
            /\ \A c \in connection_tasks :
                  /\ EmittedOn(c) \cap Queued(sid) = {}
                  /\ \A j, k \in DOMAIN streams[c].events :
                        (j # k /\ streams[c].events[j].event = "message")
                        => streams[c].events[j] # streams[c].events[k]
                  /\ \A d \in connection_tasks \ {c} : EmittedOn(c) \cap EmittedOn(d) = {})
    /\ [][\A sid \in Sids :
            LET q == message_queues[sid].msgs
                emits(c) == /\ c \in connection_tasks /\ c \in connection_tasks'
                            /\ streams[c].sid = sid
                            /\ streams'[c].events # streams[c].events
            IN /\ \A c \in Conns :
                     emits(c) => /\ q # <<>>
                                 /\ streams'[c].events =
                                       Append(streams[c].events, MessageEvent(Head(q)))
                                 /\ message_queues'[sid].msgs = Tail(q)
               /\ message_queues'[sid].msgs # q
                  => \/ \E c \in Conns : emits(c)
                     \/ \E m \in Queued(sid)' :
                           /\ message_queues'[sid].msgs = Append(q, m)
                           /\ m \notin Queued(sid)
                           /\ \A c \in connection_tasks : m \notin EmittedOn(c)]_vars

\* a stream has emitted the reply to a later request before the reply to an
\* earlier one, as they were queued
C12_Witness ==
    \E c \in connection_tasks :
        \E k \in DOMAIN streams[c].events :
            /\ k + 1 \in DOMAIN streams[c].events
            /\ streams[c].events[k].event = "message"
            /\ streams[c].events[k].msg.inv > streams[c].events[k + 1].msg.inv

\* the step opens a stream of session sid
Opens(sid) ==
    \E c \in Conns : c \notin connection_tasks /\ c \in connection_tasks' /\ streams'[c].sid = sid

\* the step closes a stream of session sid
Closes(sid) ==
    \E c \in Conns : c \in connection_tasks /\ c \notin connection_tasks' /\ streams[c].sid = sid

\* the step returns the reply to a POST of method for session sid
Answers(sid, method) ==
    /\ last_response' # last_response
    /\ last_response'.sid = sid
    /\ last_response'.method = method

\* C13: a session's initialized flag is false after a stream of it opens and
\* after every initialize request, and it becomes true only in the step
\* that handles an initialized notification posted for that session id.
C13_InitializedOnlyByNotification ==
    [][\A sid \in Sids :
          /\ Opens(sid) => client_info'[sid] = "uninitialized"
          /\ Answers(sid, "initialize") => client_info'[sid] = "uninitialized"
          /\ (client_info[sid] # "initialized" /\ client_info'[sid] = "initialized")
             => Answers(sid, "initialized")]_vars

\* C14: when a stream of a session closes, the session is marked inactive,
\* its queue is dropped and its id is removed from the transport, so that a
\* later send_message or POST for the id finds no session.
C14_CloseRemovesSession ==
    [][\A sid \in Sids :
          Closes(sid) => /\ active_connections'[sid] # "active"
                         /\ ~message_queues'[sid].open
                         /\ client_info'[sid] = "absent"]_vars

\* C15: a POST /mcp/message whose session id names no session with a stream
\* (no UUID, never opened, or closed) is answered with error -32602 whatever
\* the method, creates or changes no session state and reaches no child.
C15_UnknownSession ==
    /\ [](/\ (last_response.inv # 0 /\ ~last_response.posted_open)
             => last_response.code = -32602
          /\ \A t \in Tasks :
                (tasks[t].via = "sse" /\ tasks[t].pc # "idle" /\ ~tasks[t].streaming)
                => /\ Finished(t)
                   /\ tasks[t].target = ""
                   /\ tasks[t].disp = NoProc
                   /\ tasks[t].spawned = NoProc)
    /\ [][(last_response' # last_response /\ ~last_response'.posted_open)
          => /\ client_info' = client_info
             /\ message_queues' = message_queues
             /\ active_connections' = active_connections]_vars

\* C16: for a session with an open stream, every reply that the handler of
\* initialize, tools/list or tools/call returns (a result or an error, the
\* -32002 of the gate included) is put on the session's queue exactly once,
\* in the step that returns it.  (The -32600 and -32602 of message_endpoint
\* come before any handler and are left out.)
C16_ReplyAlsoQueued ==
    [][(/\ last_response' # last_response
        /\ last_response'.method \in {"initialize", "tools/list", "tools/call"}
        /\ last_response'.code \notin {-32600, -32602}
        /\ last_response'.open)
       => message_queues'[last_response'.sid].msgs =
             Append(message_queues[last_response'.sid].msgs,
                    [inv |-> last_response'.inv, code |-> last_response'.code,
                     method |-> last_response'.method])]_vars

\* the line is a JSON-RPC error: an error object with code and message
IsErrorReply(line) == line.jsonrpc /\ line.error.kind = "object"

\* the line is a JSON-RPC response with a result object
IsResultReply(line) == line.jsonrpc /\ ~IsErrorReply(line) /\ line.result.kind = "object"

\* C17: for every line a child can answer with, the reply of tools/call to
\* a JSON-RPC error carries an error with the child's code and message, and
\* the reply to a response with a result object is a result whose content
\* and isError are those of the child's result.
C17_ReplyPassedThrough ==
    rpc.stage = "answered"
    => /\ IsErrorReply(rpc.line)
          => /\ rpc.response.kind = "error"
             /\ rpc.response.code = rpc.line.error.code
             /\ rpc.response.message = rpc.line.error.message
       /\ IsResultReply(rpc.line)
          => /\ rpc.response.kind = "result"
             /\ rpc.line.result.content # "absent"
                => rpc.response.content = rpc.line.result.content
             /\ rpc.line.result.isError # "absent"
                => rpc.response.isError = rpc.line.result.isError

\* stop_mcpserver(name) has returned under restart_mcpserver, and the entry
\* is as it left it: start_mcpserver waits for its new process
Stopped(t) ==
    /\ tasks[t].op = "restart"
    /\ tasks[t].pc = "spawning"
    /\ InReg(mcpservers, tasks[t].name)
    /\ Entry(tasks[t].name).proc = tasks[t].old

\* C18: stop_mcpserver(name) on a registered instance in any status leaves
\* it without a live process and in status stopped, and returns success
\* also when the instance had no live process.  (A force-kill never fails
\* here, so status error is not due.)
C18_StopLeavesStopped ==
    \A t \in Tasks :
        Stopped(t) => /\ ~Alive(Entry(tasks[t].name).proc)
                      /\ Entry(tasks[t].name).status = "stopped"
                      /\ tasks[t].stop_result = "success"

\* the step in which restart_mcpserver(name) returns, for a server that was
\* running when the restart began and whose new process was spawned
RestartReturns(t) ==
    /\ tasks[t].pc # "done"
    /\ tasks'[t].pc = "done"
    /\ tasks'[t].op = "restart"
    /\ tasks'[t].gate = "running"
    /\ tasks'[t].stop_result = "success"
    /\ tasks'[t].spawned # NoProc

\* C19: a restart of a running server whose spec and tools are unchanged
\* returns success with the tool count it had before, and leaves the entry
\* in status running on a new live process, so that an invocation of its
\* tools resolves to it.
C19_RestartKeepsTools ==
    [][\A t \in Tasks :
          RestartReturns(t) =>
             LET n == tasks'[t].name IN
             /\ tasks'[t].res = "success"
             /\ tasks'[t].tool_count = tasks'[t].before
             /\ InReg(mcpservers', n)
             /\ RegEntry(mcpservers', n).status = "running"
             /\ RegEntry(mcpservers', n).proc # tasks'[t].old
             /\ AliveIn(procs', RegEntry(mcpservers', n).proc)
             /\ \A tl \in ChildTools(tasks'[t].spec) :
                   /\ FindServer(mcpservers', tl) = n
                   /\ <<n, tl>> \in routes']_vars

\* the step in which restart_all_mcpservers returns status success
RestartAllReturns(t) ==
    /\ tasks[t].pc # "done"
    /\ tasks'[t].pc = "done"
    /\ tasks'[t].op = "restart_all"
    /\ tasks'[t].res = "success"

\* C20: when restart_all_mcpservers returns success, every server of the
\* reloaded configuration is registered with a live process in status
\* running.
C20_RestartAllStartsAll ==
    [][\A t \in Tasks :
          RestartAllReturns(t) =>
             \A n \in DOMAIN config' :
                /\ InReg(mcpservers', n)
                /\ AliveIn(procs', RegEntry(mcpservers', n).proc)
                /\ RegEntry(mcpservers', n).status = "running"]_vars

\* C21: add_mcpserver called for a name already in the registry (the step
\* in which an idle handler takes the add) returns an error,
\* spawns no process and leaves the registry, config.json and the tool
\* cache as they were.
C21_AddRefusesRegistered ==
    [][\A t \in Tasks :
          (/\ tasks[t].pc = "idle"
           /\ tasks'[t].op = "add"
           /\ InReg(mcpservers, tasks'[t].name)) =>
             /\ tasks'[t].pc = "done"
             /\ tasks'[t].res = "failed"
             /\ procs' = procs
             /\ mcpservers' = mcpservers
             /\ config' = config
             /\ cache' = cache]_vars

C21_Witness ==
    \E t \in Tasks :
       /\ tasks[t].op = "add"
       /\ tasks[t].pc = "done"
       /\ tasks[t].res = "failed"
       /\ tasks[t].inv = 1
       /\ InReg(mcpservers, tasks[t].name)
       /\ tasks[t].name \in DOMAIN config
       /\ tasks[t].name \in DOMAIN cache

\* C22: when the executable cannot be started (the step in which
\* create_subprocess_exec raises in a start_mcpserver), add_mcpserver and
\* start_mcpserver report an error, and the failed start creates no registry
\* entry and writes nothing to config.json or the tool cache.
C22_SpawnFailureLeavesNothing ==
    [][\A t \in Tasks :
          (/\ tasks[t].pc = "spawning"
           /\ tasks'[t].pc \notin {"spawning", "disc_sleep"}) =>
             /\ mcpservers' = mcpservers
             /\ config' = config
             /\ cache' = cache
             /\ tasks[t].cont \in {"add", "lazy", "admin_restart"} =>
                   /\ tasks'[t].pc = "done"
                   /\ tasks'[t].res \in {"failed", "error"}]_vars

C22_Witness ==
    \E t \in Tasks :
       /\ tasks[t].op = "add"
       /\ tasks[t].cont = "add"
       /\ tasks[t].pc = "done"
       /\ tasks[t].res = "failed"
       /\ tasks[t].spawned = NoProc
       /\ ~InReg(mcpservers, tasks[t].name)
       /\ tasks[t].name \notin DOMAIN config

\* C23: when a process was spawned and its discovery gets no valid reply
\* (end of file, or no line to read), the instance stays in the registry in
\* status error with an empty tool list, and an invocation addressed to an
\* instance in status error ends with an error without reaching a child.
C23_DiscoveryFailureKept ==
    [][\A t \in Tasks :
          /\ (/\ tasks[t].pc \in {"disc_sleep", "disc_read"}
              /\ tasks'[t].pc \notin {"disc_sleep", "disc_read"}
              /\ \/ tasks[t].pc = "disc_sleep" /\ ~Alive(tasks[t].proc)
                 \/ ReadOutcome(procs, tasks[t].proc) \in {"eof", "busy"}
              /\ InReg(mcpservers, tasks[t].name)) =>
                /\ InReg(mcpservers', tasks[t].name)
                /\ RegEntry(mcpservers', tasks[t].name).status = "error"
                /\ RegEntry(mcpservers', tasks[t].name).tools = {}
          /\ (/\ tasks[t].pc = "idle"
              /\ tasks'[t].op = "invoke"
              /\ InReg(mcpservers, tasks'[t].name)
              /\ Entry(tasks'[t].name).status = "error"
              /\ tasks'[t].tool \in ChildTools(Entry(tasks'[t].name).spec)) =>
                /\ tasks'[t].pc = "done"
                /\ tasks'[t].res \in {"no_route", "not_found", "error", "raised"}
                /\ procs' = procs]_vars

\* C24: a cache file for a name exists exactly when the server has been
\* discovered successfully and not been deleted since.  Startup leaves a
\* file for every discovered server, so this is: in every step the file of a
\* name disappears only with a Delete of that name and is gone after one,
\* and it appears only with a successful discovery of that name and is
\* there after one.
C24_CacheIffDiscovered ==
    [][\A n \in Names :
          LET Deleted == \E t \in Tasks : /\ tasks[t].pc # "done"
                                          /\ tasks'[t].pc = "done"
                                          /\ tasks'[t].op = "delete"
                                          /\ tasks'[t].res = "success"
                                          /\ tasks'[t].name = n
              Discovered == \E t \in Tasks :
                               /\ tasks[t].pc \in {"disc_sleep", "disc_read"}
                               /\ tasks'[t].pc \notin {"disc_sleep", "disc_read"}
                               /\ tasks[t].name = n
                               /\ InReg(mcpservers, n)
                               /\ tasks[t].pc = "disc_sleep" => Alive(tasks[t].proc)
                               /\ ReadOutcome(procs, tasks[t].proc) = "line"
          IN /\ (n \in DOMAIN cache /\ n \notin DOMAIN cache') => Deleted
             /\ (n \notin DOMAIN cache /\ n \in DOMAIN cache') => Discovered
             /\ Deleted => n \notin DOMAIN cache'
             /\ Discovered => n \in DOMAIN cache']_vars

\* C25: the tool cache is write-once: in every step, a cache file that
\* exists keeps its content, whatever discovery runs (restart, lazy start,
\* a discovery with another tool set), unless the step is a Delete of that
\* name, which removes it.
C25_CacheWriteOnce ==
    [][\A n \in DOMAIN cache :
          \/ n \in DOMAIN cache' /\ cache'[n] = cache[n]
          \/ /\ n \notin DOMAIN cache'
             /\ \E t \in Tasks : /\ tasks[t].pc # "done"
                                 /\ tasks'[t].pc = "done"
                                 /\ tasks'[t].op = "delete"
                                 /\ tasks'[t].name = n]_vars

\* C26: in every state list_tools returns exactly the tools of the registry
\* entries whose status is running or cached, and so none of an entry that
\* is initializing, in error or stopped.
C26_ListToolsByStatus ==
    ListTools(mcpservers, procs) =
        UNION {{<<mcpservers[i].name, tl>> : tl \in mcpservers[i].tools} :
                 i \in {j \in DOMAIN mcpservers :
                          ReportedStatus(mcpservers[j], procs) \in {"running", "cached"}}}

\* C27 as stated: the tools stored after discovery are exactly the raw
\* tools, in their original order, whose name passes the env policy and the
\* config policy, a name passing a policy iff (whitelist empty or name in
\* whitelist) and name not in blacklist.
C27_FilterAsStated ==
    rpc.stage = "stored" =>
        LET Passes(tool_name) ==
                /\ (rpc.env_whitelist = {} \/ tool_name \in rpc.env_whitelist)
                /\ tool_name \notin rpc.env_blacklist
                /\ (rpc.whiteList = {} \/ tool_name \in rpc.whiteList)
                /\ tool_name \notin rpc.blackList
        IN rpc.tools = SelectSeq(rpc.raw, Passes)

\* C27, amended: the tools stored after discovery are exactly the raw tools
\* that have a name and whose name passes both policies, in their original
\* order.
C27_FilterNamedTools ==
    rpc.stage = "stored" =>
        LET Passes(tool_name) ==
                /\ tool_name # ""
                /\ (rpc.env_whitelist = {} \/ tool_name \in rpc.env_whitelist)
                /\ tool_name \notin rpc.env_blacklist
                /\ (rpc.whiteList = {} \/ tool_name \in rpc.whiteList)
                /\ tool_name \notin rpc.blackList
        IN rpc.tools = SelectSeq(rpc.raw, Passes)

C27_Witness ==
    /\ rpc.stage = "stored"
    /\ rpc.raw = <<"add", "", "echo">>
    /\ rpc.env_whitelist = {}
    /\ rpc.env_blacklist = {}
    /\ rpc.whiteList = {"echo", "add"}
    /\ rpc.blackList = {"add"}
    /\ rpc.tools = <<"echo">>

\* C28: start_private_server(user, base), for a registered base without a
\* private child of the user yet, launches the child from the environment
\* made for (user, base): the shared env of base overlaid by the user's
\* global env and then by the user's env for base.
C28_PrivateEnvLayers ==
    [][\A t \in Tasks :
          (/\ tasks[t].pc = "idle"
           /\ tasks'[t].op = "private"
           /\ tasks'[t].found # ""
           /\ ~InReg(mcpservers, tasks'[t].name)) =>
             /\ tasks'[t].pc = "spawning"
             /\ tasks'[t].spec = ServerSpec(tasks'[t].found, tasks'[t].user)]_vars

\* C29: stop_private_server(user, base), called for a private server the
\* user has started from a registered base, succeeds, and after it the
\* child base-user has no live process and no registry entry, and the
\* mapping user -> base is dropped.
C29_StopPrivateRemoves ==
    [][\A t, s \in Tasks :
          (/\ tasks[s].op = "private" /\ tasks[s].pc = "done" /\ tasks[s].found # ""
           /\ tasks[t].pc = "idle"
           /\ tasks'[t].op = "stop_private"
           /\ tasks'[t].name = tasks[s].name) =>
             /\ tasks'[t].stop_result = "success"
             /\ \A p \in Pids : ~(procs'[p].name = tasks'[t].name
                                  /\ procs'[p].state = "running")
             /\ ~InReg(mcpservers', tasks'[t].name)
             /\ \A m \in private_server_mapping' :
                   ~(m[1] = tasks'[t].user /\ m[2] = tasks'[t].found)]_vars

\* C30: a cleanup_idle_private_servers that runs after a user has started a
\* private server from a registered base stops that child and removes its
\* mapping when its idle time exceeds the timeout, and leaves it running
\* and mapped otherwise.
C30_CleanupStopsIdleOnly ==
    [][\A t, s \in Tasks :
          (/\ tasks[s].op = "private" /\ tasks[s].pc = "done" /\ tasks[s].found # ""
           /\ tasks[t].pc = "idle"
           /\ tasks'[t].op = "cleanup") =>
             LET live == \E p \in Pids : /\ procs'[p].name = tasks[s].name
                                         /\ procs'[p].state = "running"
                 mapped == \E m \in private_server_mapping' : m[3] = tasks[s].name
             IN IF \E k \in DOMAIN tasks'[t].todo : tasks'[t].todo[k] = tasks[s].name
                THEN ~live /\ ~mapped
                ELSE live /\ mapped]_vars

\* C31: an invocation by a user who has env overrides, for a tool of a
\* registered base server, is routed to the private child base-user and
\* records that child's last-used time, which is what keeps an idle cleanup
\* from stopping a child used less than its timeout ago.
C31_InvokeRefreshesLastUse ==
    [][\A t \in Tasks :
          (/\ tasks[t].pc = "idle"
           /\ tasks'[t].op = "invoke"
           /\ tasks'[t].user # Anonymous
           /\ users[tasks'[t].user].env
           /\ tasks'[t].found # "") =>
             /\ tasks'[t].name = get_private_server_name(tasks'[t].user, tasks'[t].found)
             /\ tasks'[t].name \in server_start_times']_vars

\* C32: every Invoke terminates: a call that has written its request to a
\* child and waits for the reply eventually returns, with a timeout error
\* if the child stays silent.
C32_InvokeTerminates ==
    \A t \in Tasks :
        (tasks[t].op = "invoke" /\ tasks[t].pc = "reading") ~> (tasks[t].pc = "done")

\* C33: in every state each running child process is the process of exactly
\* one registry entry: none runs without an entry that references it.
C33_LiveProcessRegistered ==
    \A p \in Pids :
        procs[p].state = "running" =>
            Cardinality({i \in DOMAIN mcpservers : mcpservers[i].proc = p}) = 1

\* C34: a call that completes in a step in which it takes a notification
\* (a line without id) from its child's stdout has not been given that line
\* as its reply: it ends with the reply to its own request.
C34_NotificationNotDelivered ==
    [][\A t \in Tasks :
          LET p == tasks'[t].disp
          IN (/\ tasks'[t].op = "invoke"
              /\ tasks[t].pc # "done"
              /\ tasks'[t].pc = "done"
              /\ p # NoProc
              /\ procs[p].stdout # <<>>
              /\ Head(procs[p].stdout).kind = "notification"
              /\ procs'[p].stdout = Tail(procs[p].stdout)) =>
                /\ tasks'[t].res = "ok"
                /\ tasks'[t].got = tasks'[t].inv]_vars

\* C35: a call that takes a line that is not JSON returns an error, and a
\* call that is alone on its child when it takes a reply takes the reply to
\* its own request, whatever the child printed before.
C35_GarbageDoesNotShift ==
    [][\A t \in Tasks :
          LET p == tasks'[t].disp
          IN (/\ tasks'[t].op = "invoke"
              /\ tasks[t].pc # "done"
              /\ tasks'[t].pc = "done"
              /\ p # NoProc
              /\ procs[p].stdout # <<>>
              /\ procs'[p].stdout = Tail(procs[p].stdout)) =>
                /\ Head(procs[p].stdout).kind = "garbage" => tasks'[t].res = "error"
                /\ (/\ Head(procs[p].stdout).kind \in {"call", "list"}
                    /\ \A s \in Tasks \ {t} : tasks[s].proc # p \/ tasks[s].pc = "done") =>
                      tasks'[t].got = tasks'[t].inv]_vars

\* C36: once shutting_down is set, no step creates a queue, a client_info
\* entry, an active-connection entry or a tracked task, no stream gets an
\* event, send_message adds nothing to any queue, and the flag stays set.
C36_ShutdownRefuses ==
    [][shutting_down =>
          /\ shutting_down'
          /\ connection_tasks' \subseteq connection_tasks
          /\ \A c \in Conns : streams'[c] \in {streams[c], NoStream}
          /\ \A s \in Sids :
                /\ ~message_queues[s].open => ~message_queues'[s].open
                /\ client_info[s] = "absent" => client_info'[s] = "absent"
                /\ active_connections[s] = "absent" => active_connections'[s] = "absent"
                /\ Len(message_queues'[s].msgs) <= Len(message_queues[s].msgs)]_vars

\* C37: every stream open creates a session with an empty queue and the
\* initialized flag false, also when the client_id is the id of an earlier
\* stream: no message enqueued for the earlier stream and no flag set
\* through it is there when the new stream starts.
C37_OpenCreatesFreshSession ==
    [][\A c \in Conns :
          (streams[c] = NoStream /\ streams'[c] # NoStream)
          => /\ message_queues'[streams'[c].sid] = [open |-> TRUE, msgs |-> <<>>]
             /\ client_info'[streams'[c].sid] = "uninitialized"]_vars

============================================================================
